---------------------------- MODULE Spec2Model ----------------------------
(***************************************************************************)
(* Model of the template substitution engine of baumkuchen                 *)
(* (src/src/main.rs): the expression evaluator, the structural rewrite of  *)
(* one component instantiation, the fixed-point loop of substitute and     *)
(* the document driver generate_file.                                      *)
(*                                                                         *)
(* Strings are sequences of one-character strings, so that the regular     *)
(* expressions of the program (the ${...} scanner, the A||B splitter and   *)
(* the anchored <if> pattern) are modelled by what they do to characters.  *)
(* Trees are values: an element is a record holding its name, its ordered  *)
(* attribute list and its ordered child list.                              *)
(*                                                                         *)
(* One instantiation is modelled twice: as the operator instantiate, which *)
(* the state machine of substitute applies in one step, and step by step   *)
(* on an arena of nodes (InstantiateSpec), where every call of the         *)
(* recursive functions is a step of its own.                               *)
(***************************************************************************)
EXTENDS Naturals, Sequences, FiniteSets, TLC

VARIABLES
    pc,                 \* position of generate_file: "driver", "substitute", "done", "aborted", "cutoff"
    doc_done,           \* top-level nodes of the document left of the driver's cursor
    doc_rest,           \* top-level nodes the driver has collected and not yet visited
    stack,              \* the active substitute calls, outermost first
    library,            \* ElementLibrary.elements: tag name -> <throwaway> tree
    names,              \* the names interned in the Xot arena (xot.name succeeds on these)
    file_path,          \* Context.file_path
    debug_assertions,   \* whether the build checks debug_assert!
    strict_document,    \* whether the tree library refuses element/text siblings under a document node
    loaded,             \* the library as it was right after loading
    source,             \* the document as it was parsed
    last,               \* record of the most recent instantiate call
    phase,              \* position of the instantiate call followed step by step
    arena,              \* its Xot arena: the nodes it created, by node id
    calls,              \* its active calls, outermost first
    given               \* the definition and the invocation it was called with

\* the instantiate call that is followed step by step
traced == <<phase, arena, calls, given>>

vars == <<pc, doc_done, doc_rest, stack, library, names, file_path,
          debug_assertions, strict_document, loaded, source, last, traced>>

---------------------------------------------------------------------------
(* Strings *)

Letters == {"a","b","c","d","e","f","g","h","i","j","k","l","m",
            "n","o","p","q","r","s","t","u","v","w","x","y","z"}

\* [a-zA-Z0-9_\-\.] of regex_or_expr (the model's strings hold no capitals or digits)
NameChars == Letters \cup {"_", "-", "."}

\* [a-zA-Z0-9_\-\.\|] of regex_dollar_expansion
ExprChars == NameChars \cup {"|"}

SELF_ == <<"s","e","l","f",".">>
FOREACHCHILD_ == <<"f","o","r","e","a","c","h","c","h","i","l","d",".">>
SELF_FILEPATH == SELF_ \o <<"f","i","l","e","p","a","t","h">>
INNER == <<"i","n","n","e","r">>
IF_ == <<"i","f">>
THEN_ == <<"t","h","e","n">>
ELSE_ == <<"e","l","s","e">>
THROWAWAY == <<"t","h","r","o","w","a","w","a","y">>

\* LET x == v IN Op(x), with v evaluated once however often Op uses x
With(v, Op(_)) == CHOOSE out \in {Op(x) : x \in {v}} : TRUE

\* str::starts_with
starts_with(s, p) == Len(s) >= Len(p) /\ SubSeq(s, 1, Len(p)) = p

\* str::strip_prefix, for a string known to start with p
strip_prefix(s, p) == SubSeq(s, Len(p) + 1, Len(s))

\* str::contains(char)
contains(s, c) == \E i \in 1..Len(s) : s[i] = c

---------------------------------------------------------------------------
(* Tree values *)

Element(name, attrs, children) ==
    [kind |-> "element", name |-> name, attrs |-> attrs, children |-> children, text |-> <<>>]

Text(t) ==
    [kind |-> "text", name |-> <<>>, attrs |-> <<>>, children |-> <<>>, text |-> t]

Comment(t) ==
    [kind |-> "comment", name |-> <<>>, attrs |-> <<>>, children |-> <<>>, text |-> t]

is_element(n) == n.kind = "element"

\* xot.attributes(node).get(id): attributes are an ordered list of <<key, value>>
has_attribute(n, key) == \E i \in 1..Len(n.attrs) : n.attrs[i][1] = key

attribute(n, key) == n.attrs[CHOOSE i \in 1..Len(n.attrs) : n.attrs[i][1] = key][2]

\* xot.attributes_mut(node).insert(key, value)
attributes_insert(attrs, key, value) ==
    IF \E i \in 1..Len(attrs) : attrs[i][1] = key
    THEN [i \in 1..Len(attrs) |-> IF attrs[i][1] = key THEN <<key, value>> ELSE attrs[i]]
    ELSE Append(attrs, <<key, value>>)

\* the subsequence of the elements that satisfy a test
SelectElements(s) == SelectSeq(s, is_element)

---------------------------------------------------------------------------
(* Expression evaluator *)

\* Context.regex_or_expr, ^([a-zA-Z0-9_\-\.]+)\|\|([a-zA-Z0-9_\-\.]+)$ :
\* the positions i at which expr reads A||B with the first bar at i
or_expr_splits(expr) ==
    {i \in 2..(Len(expr) - 2) :
        /\ expr[i] = "|" /\ expr[i + 1] = "|"
        /\ \A k \in 1..(i - 1) : expr[k] \in NameChars
        /\ \A k \in (i + 2)..Len(expr) : expr[k] \in NameChars}

\* the lookup of 'self.xyz' on the invocation element
self_attribute(expr, invocation) ==
    LET attr_name == strip_prefix(expr, SELF_) IN
    IF attr_name \in names /\ has_attribute(invocation, attr_name)
    THEN attribute(invocation, attr_name)
    ELSE <<>>

RECURSIVE evaluate_expression(_, _)
\* evaluate_expression with A||B giving the value of A even when it is empty
evaluate_expression_without_default(expr, invocation) ==
    IF expr = SELF_FILEPATH THEN file_path
    ELSE IF or_expr_splits(expr) # {} THEN
        LET i == CHOOSE i \in or_expr_splits(expr) : TRUE
        IN  evaluate_expression(SubSeq(expr, 1, i - 1), invocation)
    ELSE IF starts_with(expr, SELF_) THEN self_attribute(expr, invocation)
    ELSE <<>>

evaluate_expression(expr, invocation) ==
    IF expr = SELF_FILEPATH THEN file_path
    ELSE IF or_expr_splits(expr) # {} THEN
        LET i == CHOOSE i \in or_expr_splits(expr) : TRUE
            a == SubSeq(expr, 1, i - 1)
            b == SubSeq(expr, i + 2, Len(expr))
            a_val == evaluate_expression(a, invocation)
        IN  IF a_val # <<>> THEN a_val ELSE evaluate_expression(b, invocation)
    ELSE IF starts_with(expr, SELF_) THEN self_attribute(expr, invocation)
    ELSE <<>>

RECURSIVE evaluate_expression_asserts(_, _)
\* whether debug_assert!(!attr_value.contains('$')) fails while expr is evaluated
evaluate_expression_asserts(expr, invocation) ==
    IF expr = SELF_FILEPATH THEN FALSE
    ELSE IF or_expr_splits(expr) # {} THEN
        LET i == CHOOSE i \in or_expr_splits(expr) : TRUE
            a == SubSeq(expr, 1, i - 1)
            b == SubSeq(expr, i + 2, Len(expr))
        IN  \/ evaluate_expression_asserts(a, invocation)
            \/ /\ evaluate_expression(a, invocation) = <<>>
               /\ evaluate_expression_asserts(b, invocation)
    ELSE IF starts_with(expr, SELF_) THEN contains(self_attribute(expr, invocation), "$")
    ELSE FALSE

\* Context.regex_dollar_expansion, \$\{([a-zA-Z0-9_\-\.\|]+)} : the index of the
\* closing brace of a match that starts at i, or 0 when none starts there
dollar_expansion_end(s, i) ==
    IF i + 3 <= Len(s) /\ s[i] = "$" /\ s[i + 1] = "{" /\ s[i + 2] \in ExprChars
    THEN LET j == CHOOSE j \in (i + 2)..Len(s) :
                    /\ \A k \in (i + 2)..j : s[k] \in ExprChars
                    /\ (j = Len(s) \/ s[j + 1] \notin ExprChars)
         IN  IF j < Len(s) /\ s[j + 1] = "}" THEN j + 1 ELSE 0
    ELSE 0

RECURSIVE replace_all(_, _, _)
\* Regex::replace_all from position i on: leftmost matches, left to right, the
\* replacement text is not scanned again
replace_all(s, i, invocation) ==
    IF i > Len(s) THEN <<>>
    ELSE With(dollar_expansion_end(s, i), LAMBDA e :
         IF e > 0
         THEN evaluate_expression(SubSeq(s, i + 2, e - 1), invocation)
                  \o replace_all(s, e + 1, invocation)
         ELSE <<s[i]>> \o replace_all(s, i + 1, invocation))

expand_string(expr_string, invocation) ==
    With(expr_string, LAMBDA s : replace_all(s, 1, invocation))

RECURSIVE replace_all_asserts(_, _, _)
replace_all_asserts(s, i, invocation) ==
    IF i > Len(s) THEN FALSE
    ELSE With(dollar_expansion_end(s, i), LAMBDA e :
         IF e > 0
         THEN \/ evaluate_expression_asserts(SubSeq(s, i + 2, e - 1), invocation)
              \/ replace_all_asserts(s, e + 1, invocation)
         ELSE replace_all_asserts(s, i + 1, invocation))

\* whether a debug_assert fails while expr_string is expanded
expand_string_asserts(expr_string, invocation) ==
    With(expr_string, LAMBDA s : replace_all_asserts(s, 1, invocation))

---------------------------------------------------------------------------
(* The regex crate, for the patterns the model's strings can spell: a literal *)
(* character matches itself, . any character, ^ and $ assert the start and *)
(* the end of the text, | separates alternatives and binds weakest; an     *)
(* unbalanced parenthesis or a brace that opens no counted repetition is a *)
(* syntax error.                                                           *)

regex_valid(pattern) == \A i \in 1..Len(pattern) : pattern[i] \notin {"(", ")", "{"}

RECURSIVE alternatives(_)
\* the alternatives of a pattern, split at each |
alternatives(pattern) ==
    IF ~contains(pattern, "|") THEN <<pattern>>
    ELSE LET i == CHOOSE i \in 1..Len(pattern) :
                    pattern[i] = "|" /\ \A k \in 1..(i - 1) : pattern[k] # "|"
         IN  <<SubSeq(pattern, 1, i - 1)>> \o alternatives(SubSeq(pattern, i + 1, Len(pattern)))

RECURSIVE match_here(_, _, _, _)
\* whether the atoms k.. of one alternative match text from position i on
match_here(alt, k, text, i) ==
    IF k > Len(alt) THEN TRUE
    ELSE IF alt[k] = "^" THEN i = 1 /\ match_here(alt, k + 1, text, i)
    ELSE IF alt[k] = "$" THEN i = Len(text) + 1 /\ match_here(alt, k + 1, text, i)
    ELSE /\ i <= Len(text)
         /\ (alt[k] = "." \/ alt[k] = text[i])
         /\ match_here(alt, k + 1, text, i + 1)

\* Regex::is_match: the pattern matches somewhere in the text
is_match(pattern, text) ==
    \E alt \in {alternatives(pattern)[a] : a \in 1..Len(alternatives(pattern))} :
        \E i \in 1..(Len(text) + 1) : match_here(alt, 1, text, i)

\* the pattern expression_matches_pattern compiles
anchored_pattern(pattern_string, invocation) ==
    <<"^">> \o expand_string(pattern_string, invocation) \o <<"$">>

\* whether Regex::new(&pattern).expect("Invalid regex") panics
expression_matches_pattern_panics(expr_string, pattern_string, invocation) ==
    ~regex_valid(anchored_pattern(pattern_string, invocation))

\* a condition that holds whatever the value
expression_matches_pattern_always(expr_string, pattern_string, invocation) == TRUE

expression_matches_pattern(expr_string, pattern_string, invocation) ==
    With(evaluate_expression(expr_string, invocation), LAMBDA expr_value :
    With(anchored_pattern(pattern_string, invocation), LAMBDA pattern :
        is_match(pattern, expr_value)))

---------------------------------------------------------------------------
(* Structural substitution inside one instantiation.  Every rewrite        *)
(* returns what stands in the place of the node it was given: the nodes,   *)
(* in order, or a panic.                                                   *)

Ok(nodes) == [panic |-> FALSE, nodes |-> nodes]

Panic == [panic |-> TRUE, nodes |-> <<>>]

\* the attributes as they were written
expanded_attributes_skipped(attrs, invocation) == attrs

\* the attributes with every value expanded against the invocation
expanded_attributes(attrs, invocation) ==
    [i \in 1..Len(attrs) |-> <<attrs[i][1], expand_string(attrs[i][2], invocation)>>]

RECURSIVE insert_attributes(_, _)
\* for (key, value) in orig_attrs { attributes_mut(r).insert(key_id, value) }
insert_attributes(attrs, orig_attrs) ==
    IF orig_attrs = <<>> THEN attrs
    ELSE insert_attributes(attributes_insert(attrs, Head(orig_attrs)[1], Head(orig_attrs)[2]),
                           Tail(orig_attrs))

RECURSIVE substitute_tag(_, _, _, _), substitute_tag_children(_, _, _, _)
substitute_tag(node, tag_name, replacement, invocation) ==
    IF ~is_element(node) THEN Ok(<<node>>)
    ELSE IF node.name = tag_name THEN
        IF debug_assertions
              /\ \E i \in 1..Len(node.attrs) : expand_string_asserts(node.attrs[i][2], invocation)
        THEN Panic
        ELSE With(expanded_attributes(node.attrs, invocation), LAMBDA orig_attrs :
                 Ok(<<[replacement EXCEPT !.attrs = insert_attributes(@, orig_attrs)]>>))
    ELSE With(substitute_tag_children(node.children, tag_name, replacement, invocation),
              LAMBDA done : IF done.panic THEN Panic
                            ELSE Ok(<<[node EXCEPT !.children = done.nodes]>>))

\* for child in children { substitute_tag(child, ...) }, lines 117-120
substitute_tag_children(children, tag_name, replacement, invocation) ==
    IF children = <<>> THEN Ok(<<>>)
    ELSE With(substitute_tag(Head(children), tag_name, replacement, invocation), LAMBDA first :
         IF first.panic THEN Panic
         ELSE With(substitute_tag_children(Tail(children), tag_name, replacement, invocation),
                   LAMBDA rest : IF rest.panic THEN Panic
                                 ELSE Ok(first.nodes \o rest.nodes)))

RECURSIVE substitute_foreach_children(_, _, _, _)
\* the loop of substitute_foreach without the is_element test of line 155
substitute_foreach_children_all(inv_children, node_child, loop_var, invocation) ==
    IF inv_children = <<>> THEN Ok(<<>>)
    ELSE With(substitute_tag(node_child, loop_var, Head(inv_children), invocation), LAMBDA ch :
         IF ch.panic THEN Panic
         ELSE With(substitute_foreach_children(Tail(inv_children), node_child, loop_var,
                                               invocation),
                   LAMBDA rest : IF rest.panic THEN Panic
                                 ELSE Ok(ch.nodes \o rest.nodes)))

\* for inv_child in children { ... }, lines 153-163: one clone of node_child per
\* element child of the invocation
substitute_foreach_children(inv_children, node_child, loop_var, invocation) ==
    IF inv_children = <<>> THEN Ok(<<>>)
    ELSE IF ~is_element(Head(inv_children))
    THEN substitute_foreach_children(Tail(inv_children), node_child, loop_var, invocation)
    ELSE With(substitute_tag(node_child, loop_var, Head(inv_children), invocation), LAMBDA ch :
         IF ch.panic THEN Panic
         ELSE With(substitute_foreach_children(Tail(inv_children), node_child, loop_var,
                                               invocation),
                   LAMBDA rest : IF rest.panic THEN Panic
                                 ELSE Ok(ch.nodes \o rest.nodes)))

\* substitute_foreach without the lookup of the loop variable's name, lines 138-144
substitute_foreach_unchecked(node, invocation) ==
    LET loop_var_str == strip_prefix(node.name, FOREACHCHILD_)
        templates == SelectElements(node.children)
    IN  IF debug_assertions /\ Len(templates) # 1 THEN Panic
        ELSE IF templates = <<>> THEN Panic
        ELSE substitute_foreach_children(invocation.children, templates[1], loop_var_str,
                                         invocation)

substitute_foreach(node, invocation) ==
    LET loop_var_str == strip_prefix(node.name, FOREACHCHILD_)
        templates == SelectElements(node.children)
    IN  IF debug_assertions /\ Len(templates) # 1 THEN Panic
        ELSE IF loop_var_str \notin names THEN Ok(<<node>>)
        ELSE IF templates = <<>> THEN Panic
        ELSE substitute_foreach_children(invocation.children, templates[1], loop_var_str,
                                         invocation)

\* the children of the first child of node that is an element named name, if
\* there is one (lines 260-283 and 291-296)
branch_children(node, name) ==
    LET found == SelectSeq(node.children, LAMBDA c : is_element(c) /\ c.name = name)
    IN  IF name \in names /\ found # <<>> THEN found[1].children ELSE <<>>

\* substitute_if taking a malformed <if> for a condition that does not hold
substitute_if_lenient(node, invocation) ==
    IF Len(node.attrs) # 1 THEN Ok(branch_children(node, ELSE_))
    ELSE LET expr == node.attrs[1][1]
             pattern == node.attrs[1][2]
         IN  IF expression_matches_pattern_panics(expr, pattern, invocation)
             THEN Ok(branch_children(node, ELSE_))
             ELSE IF expression_matches_pattern(expr, pattern, invocation)
                  THEN Ok(branch_children(node, THEN_))
                  ELSE Ok(branch_children(node, ELSE_))

substitute_if(node, invocation) ==
    IF Len(node.attrs) # 1 THEN Panic
    ELSE LET expr == node.attrs[1][1]
             pattern == node.attrs[1][2]
         IN  IF debug_assertions /\ ( \/ evaluate_expression_asserts(expr, invocation)
                                      \/ expand_string_asserts(pattern, invocation) )
             THEN Panic
             ELSE IF expression_matches_pattern_panics(expr, pattern, invocation) THEN Panic
             ELSE IF expression_matches_pattern(expr, pattern, invocation)
                  THEN Ok(branch_children(node, THEN_))
                  ELSE Ok(branch_children(node, ELSE_))

\* substitute_attr with <self.inner> standing for the element children only
substitute_attr_inner_elements(node, invocation) ==
    LET attr_name == strip_prefix(node.name, SELF_) IN
    IF attr_name = INNER THEN Ok(SelectElements(invocation.children))
    ELSE IF attr_name \notin names THEN Ok(<<node>>)
    ELSE IF has_attribute(invocation, attr_name)
         THEN IF attribute(invocation, attr_name) # <<>>
              THEN Ok(<<Text(attribute(invocation, attr_name))>>)
              ELSE Ok(<<>>)
         ELSE Ok(<<node>>)

substitute_attr(node, invocation) ==
    LET attr_name == strip_prefix(node.name, SELF_) IN
    IF attr_name = INNER THEN Ok(invocation.children)
    ELSE IF attr_name \notin names THEN Ok(<<node>>)
    ELSE IF has_attribute(invocation, attr_name)
         THEN IF attribute(invocation, attr_name) # <<>>
              THEN Ok(<<Text(attribute(invocation, attr_name))>>)
              ELSE Ok(<<>>)
         ELSE Ok(<<node>>)

RECURSIVE expand_all_attr_strings(_, _), expand_all_attr_strings_children(_, _)
expand_all_attr_strings(node, invocation) ==
    [node EXCEPT
        !.attrs = expanded_attributes(@, invocation),
        !.children = expand_all_attr_strings_children(@, invocation)]

\* for child in children { expand_all_attr_strings(child, ...) }, lines 376-379
expand_all_attr_strings_children(children, invocation) ==
    IF children = <<>> THEN <<>>
    ELSE <<expand_all_attr_strings(Head(children), invocation)>>
           \o expand_all_attr_strings_children(Tail(children), invocation)

RECURSIVE expand_all_attr_strings_asserts(_, _)
\* whether a debug_assert fails during the attribute pass
expand_all_attr_strings_asserts(node, invocation) ==
    \/ \E i \in 1..Len(node.attrs) : expand_string_asserts(node.attrs[i][2], invocation)
    \/ \E i \in 1..Len(node.children) :
           expand_all_attr_strings_asserts(node.children[i], invocation)

\* the rewrite of an element whose children have been rewritten, lines 408-423
substitute_construct(node, invocation) ==
    IF starts_with(node.name, FOREACHCHILD_) THEN substitute_foreach(node, invocation)
    ELSE IF node.name = IF_ THEN substitute_if(node, invocation)
    ELSE IF starts_with(node.name, SELF_) THEN substitute_attr(node, invocation)
    ELSE Ok(<<node>>)

RECURSIVE substitute_invocation(_, _), substitute_invocation_children(_, _)
substitute_invocation(node, invocation) ==
    IF ~is_element(node) THEN Ok(<<node>>)
    ELSE With(substitute_invocation_children(node.children, invocation), LAMBDA inner :
         IF inner.panic THEN Panic
         ELSE With([node EXCEPT !.children = inner.nodes], LAMBDA rewritten :
                  substitute_construct(rewritten, invocation)))

\* for child in children { substitute_invocation(child, ...) }, lines 402-405
substitute_invocation_children(children, invocation) ==
    IF children = <<>> THEN Ok(<<>>)
    ELSE With(substitute_invocation(Head(children), invocation), LAMBDA first :
         IF first.panic THEN Panic
         ELSE With(substitute_invocation_children(Tail(children), invocation), LAMBDA rest :
                  IF rest.panic THEN Panic ELSE Ok(first.nodes \o rest.nodes)))

\* instantiate without line 469: the stored tree itself is rewritten and its
\* children are moved into the document
instantiate_without_clone(definition, invocation) ==
    IF debug_assertions /\ expand_all_attr_strings_asserts(definition, invocation)
    THEN [panic |-> TRUE, nodes |-> <<>>, stored |-> definition]
    ELSE With(expand_all_attr_strings(definition, invocation), LAMBDA node :
         With(substitute_invocation(node, invocation), LAMBDA rewritten :
              IF rewritten.panic
              THEN [panic |-> TRUE, nodes |-> <<>>, stored |-> node]
              ELSE [panic |-> FALSE, nodes |-> rewritten.nodes[1].children,
                    stored |-> [rewritten.nodes[1] EXCEPT !.children = <<>>]]))

\* instantiate with lines 471 and 472 exchanged: the attributes are expanded
\* after the structural rewrite
instantiate_structure_first(definition, invocation) ==
    IF debug_assertions /\ expand_all_attr_strings_asserts(definition, invocation)
    THEN [panic |-> TRUE, nodes |-> <<>>, stored |-> definition]
    ELSE With(substitute_invocation(definition, invocation), LAMBDA rewritten :
              IF rewritten.panic
              THEN [panic |-> TRUE, nodes |-> <<>>, stored |-> definition]
              ELSE [panic |-> FALSE,
                    nodes |-> expand_all_attr_strings(rewritten.nodes[1], invocation).children,
                    stored |-> definition])

\* ElementDefinition::instantiate: definition is the stored <throwaway> tree.
\* The rewrite works on xot.clone(node); stored is what the library holds afterwards.
instantiate(definition, invocation) ==
    IF debug_assertions /\ expand_all_attr_strings_asserts(definition, invocation)
    THEN [panic |-> TRUE, nodes |-> <<>>, stored |-> definition]
    ELSE With(expand_all_attr_strings(definition, invocation), LAMBDA node :
         With(substitute_invocation(node, invocation), LAMBDA rewritten :
              IF rewritten.panic
              THEN [panic |-> TRUE, nodes |-> <<>>, stored |-> definition]
              ELSE [panic |-> FALSE, nodes |-> rewritten.nodes[1].children,
                    stored |-> definition]))

---------------------------------------------------------------------------
(* The Xot arena during one instantiate call.  A node is known by its id,  *)
(* its position in the arena; it holds its value, its parent (0 when it    *)
(* has none) and the ids of its children.  inserted tells the nodes made   *)
(* during the structural rewrite from those of the cloned body; expanded,  *)
(* visited and walked count the calls of expand_all_attr_strings,          *)
(* substitute_invocation and substitute_tag on the node.                   *)

Node(n, parent, inserted) ==
    [kind |-> n.kind, name |-> n.name, attrs |-> n.attrs, text |-> n.text,
     parent |-> parent, children |-> <<>>, removed |-> FALSE, inserted |-> inserted,
     expanded |-> 0, visited |-> 0, walked |-> 0]

RECURSIVE clone_forest(_, _, _, _)
\* the arena with a copy of each tree added under parent, and the ids of the copies
clone_forest(ar, trees, parent, inserted) ==
    IF trees = <<>> THEN [arena |-> ar, ids |-> <<>>]
    ELSE With(Len(ar) + 1, LAMBDA id :
         With(clone_forest(Append(ar, Node(Head(trees), parent, inserted)),
                           Head(trees).children, id, inserted), LAMBDA below :
         With(clone_forest([below.arena EXCEPT ![id].children = below.ids],
                           Tail(trees), parent, inserted), LAMBDA rest :
              [arena |-> rest.arena, ids |-> <<id>> \o rest.ids])))

RECURSIVE tree(_, _)
\* the tree value that stands at node id
tree(ar, id) ==
    [kind |-> ar[id].kind, name |-> ar[id].name, attrs |-> ar[id].attrs,
     children |-> [i \in 1..Len(ar[id].children) |-> tree(ar, ar[id].children[i])],
     text |-> ar[id].text]

\* xot.children(node).collect(), as values
trees(ar, ids) == [i \in 1..Len(ids) |-> tree(ar, ids[i])]

\* the position of node among the children of its parent
position(ar, node) ==
    CHOOSE i \in 1..Len(ar[ar[node].parent].children) : ar[ar[node].parent].children[i] = node

\* xot.insert_before(node, ids): the detached nodes ids become the siblings
\* right before node, in order
insert_before(ar, node, ids) ==
    With(ar[node].parent, LAMBDA p :
    With(position(ar, node), LAMBDA at :
        [i \in 1..Len(ar) |->
            IF i = p THEN [ar[i] EXCEPT !.children = SubSeq(@, 1, at - 1) \o ids
                                                       \o SubSeq(@, at, Len(@))]
            ELSE IF \E k \in 1..Len(ids) : ids[k] = i THEN [ar[i] EXCEPT !.parent = p]
            ELSE ar[i]]))

\* xot.detach(node)
detach(ar, node) ==
    With(ar[node].parent, LAMBDA p :
        [i \in 1..Len(ar) |->
            IF i = p THEN [ar[i] EXCEPT !.children = SelectSeq(@, LAMBDA c : c # node)]
            ELSE IF i = node THEN [ar[i] EXCEPT !.parent = 0]
            ELSE ar[i]])

RECURSIVE descendants(_, _)
\* node and the nodes below it
descendants(ar, node) ==
    {node} \cup UNION {descendants(ar, ar[node].children[i]) : i \in 1..Len(ar[node].children)}

\* xot.remove(node): the node is detached and it and the nodes below it are freed
remove(ar, node) ==
    With(descendants(ar, node), LAMBDA freed :
    With(detach(ar, node), LAMBDA out :
        [i \in 1..Len(out) |-> IF i \in freed THEN [out[i] EXCEPT !.removed = TRUE]
                                ELSE out[i]]))

\* xot.replace(node, r): the detached node r takes the place of node
replace(ar, node, r) ==
    With(ar[node].parent, LAMBDA p :
    With(position(ar, node), LAMBDA at :
        [i \in 1..Len(ar) |->
            IF i = p THEN [ar[i] EXCEPT !.children[at] = r]
            ELSE IF i = r THEN [ar[i] EXCEPT !.parent = p]
            ELSE IF i = node THEN [ar[i] EXCEPT !.parent = 0]
            ELSE ar[i]]))

---------------------------------------------------------------------------
(* ElementDefinition::instantiate, step by step.  Each active call of      *)
(* expand_all_attr_strings, substitute_invocation, substitute_foreach and  *)
(* substitute_tag is an entry of calls: the node it was given, whether it  *)
(* has collected the children it loops over, the children it collected     *)
(* and the position of its loop.                                           *)

\* what an instantiate call leaves alone
outer == <<pc, doc_done, doc_rest, stack, library, names, file_path,
           debug_assertions, strict_document, loaded, source, last>>

\* where a call has no replacement
Nothing == Text(<<>>)

Active(fn, node, tag_name, replacement) ==
    [fn |-> fn, node |-> node, at |-> "enter", children |-> <<>>, idx |-> 1,
     tag_name |-> tag_name, replacement |-> replacement, template |-> 0,
     inv_children |-> <<>>]

Current == calls[Len(calls)]

\* the clone of the <throwaway> element is the first node of the arena
Root == 1

\* a panic: the call never returns
Panics ==
    /\ phase' = "panicked"
    /\ UNCHANGED <<arena, calls>>

\* the current call returns, leaving the arena ar: to its caller, or to
\* instantiate, which goes on with the structural rewrite after the attribute
\* pass (lines 471-472) and returns after the rewrite (line 474)
Returns(ar) ==
    /\ arena' = ar
    /\ IF Len(calls) > 1
       THEN /\ calls' = SubSeq(calls, 1, Len(calls) - 1)
            /\ phase' = phase
       ELSE IF phase = "expand"
       THEN /\ calls' = <<Active("substitute_invocation", Root, <<>>, Nothing)>>
            /\ phase' = "substitute"
       ELSE /\ calls' = <<>>
            /\ phase' = "returned"

\* let children: Vec<Node> = xot.children(node).collect()
Collects(ar) ==
    /\ arena' = ar
    /\ calls' = [calls EXCEPT ![Len(calls)].at = "loop",
                              ![Len(calls)].children = ar[Current.node].children]
    /\ phase' = phase

\* for child in children { f(xot, child, ...) }: the call on the next child
Descends ==
    /\ Current.at = "loop" /\ Current.idx <= Len(Current.children)
    /\ calls' = [calls EXCEPT ![Len(calls)].idx = @ + 1]
                  \o <<Active(Current.fn, Current.children[Current.idx],
                              Current.tag_name, Current.replacement)>>
    /\ UNCHANGED <<arena, phase>>

\* the loop over the collected children is over
Looped == Current.at = "loop" /\ Current.idx > Len(Current.children)

\* instantiate, lines 466-471: the body is cloned and the attribute pass begins
InstantiateCall ==
    /\ phase = "idle" /\ given.tag # <<>>
    /\ arena' = clone_forest(<<>>, <<given.definition>>, 0, FALSE).arena
    /\ calls' = <<Active("expand_all_attr_strings", Root, <<>>, Nothing)>>
    /\ phase' = "expand"
    /\ UNCHANGED <<given, outer>>

\* expand_all_attr_strings, lines 365-375: the attributes of the node
ExpandAttributes ==
    /\ phase = "expand" /\ Current.fn = "expand_all_attr_strings" /\ Current.at = "enter"
    /\ LET node == Current.node IN
       IF debug_assertions
            /\ \E i \in 1..Len(arena[node].attrs) :
                   expand_string_asserts(arena[node].attrs[i][2], given.invocation)
       THEN Panics
       ELSE Collects([arena EXCEPT
                ![node].attrs = expanded_attributes(@, given.invocation),
                ![node].expanded = @ + 1])
    /\ UNCHANGED <<given, outer>>

\* expand_all_attr_strings, lines 377-380
ExpandChild ==
    /\ phase = "expand" /\ Current.fn = "expand_all_attr_strings"
    /\ Descends
    /\ UNCHANGED <<given, outer>>

ExpandReturn ==
    /\ phase = "expand" /\ Current.fn = "expand_all_attr_strings"
    /\ Looped
    /\ Returns(arena)
    /\ UNCHANGED <<given, outer>>

\* substitute_invocation, lines 393-401
SubstituteInvocationEnter ==
    /\ phase = "substitute" /\ Current.fn = "substitute_invocation" /\ Current.at = "enter"
    /\ LET node == Current.node
           ar == [arena EXCEPT ![node].visited = @ + 1]
       IN  IF debug_assertions /\ arena[node].removed THEN Panics
           ELSE IF arena[node].kind # "element" THEN Returns(ar)
           ELSE Collects(ar)
    /\ UNCHANGED <<given, outer>>

\* substitute_invocation, lines 402-405
SubstituteInvocationChild ==
    /\ phase = "substitute" /\ Current.fn = "substitute_invocation"
    /\ Descends
    /\ UNCHANGED <<given, outer>>

\* the children of the node have been rewritten and its name is tested
Rewritten ==
    phase = "substitute" /\ Current.fn = "substitute_invocation" /\ Looped

\* substitute_invocation, lines 408-410, and substitute_foreach, lines 130-152
SubstituteForeachEnter ==
    /\ Rewritten /\ starts_with(arena[Current.node].name, FOREACHCHILD_)
    /\ LET node == Current.node
           loop_var_str == strip_prefix(arena[node].name, FOREACHCHILD_)
           templates == SelectSeq(arena[node].children,
                                  LAMBDA c : arena[c].kind = "element")
       IN  IF debug_assertions /\ Len(templates) # 1 THEN Panics
           ELSE IF loop_var_str \notin names THEN Returns(arena)
           ELSE IF templates = <<>> THEN Panics
           ELSE /\ calls' = [calls EXCEPT ![Len(calls)] =
                                [fn |-> "substitute_foreach", node |-> node, at |-> "loop",
                                 children |-> <<>>, idx |-> 1,
                                 tag_name |-> loop_var_str, replacement |-> Nothing,
                                 template |-> templates[1],
                                 inv_children |-> given.invocation.children]]
                /\ UNCHANGED <<arena, phase>>
    /\ UNCHANGED <<given, outer>>

\* substitute_foreach, lines 153-163: one turn of the loop
SubstituteForeachChild ==
    /\ phase = "substitute" /\ Current.fn = "substitute_foreach"
    /\ Current.idx <= Len(Current.inv_children)
    /\ LET inv_child == Current.inv_children[Current.idx] IN
       IF ~is_element(inv_child)
       THEN /\ calls' = [calls EXCEPT ![Len(calls)].idx = @ + 1]
            /\ UNCHANGED arena
       ELSE \E cloned \in {clone_forest(arena, <<tree(arena, Current.template)>>, 0, TRUE)} :
            /\ arena' = insert_before(cloned.arena, Current.node, cloned.ids)
            /\ calls' = [calls EXCEPT ![Len(calls)].idx = @ + 1]
                          \o <<Active("substitute_tag", cloned.ids[1], Current.tag_name,
                                      inv_child)>>
    /\ UNCHANGED <<phase, given, outer>>

\* substitute_foreach, lines 164-166
SubstituteForeachReturn ==
    /\ phase = "substitute" /\ Current.fn = "substitute_foreach"
    /\ Current.idx > Len(Current.inv_children)
    /\ Returns(detach(arena, Current.node))
    /\ UNCHANGED <<given, outer>>

\* substitute_tag, lines 93-116
SubstituteTagEnter ==
    /\ phase = "substitute" /\ Current.fn = "substitute_tag" /\ Current.at = "enter"
    /\ LET node == Current.node
           ar == [arena EXCEPT ![node].walked = @ + 1]
       IN  IF debug_assertions /\ arena[node].removed THEN Panics
           ELSE IF arena[node].kind # "element" THEN Returns(ar)
           ELSE IF arena[node].name # Current.tag_name THEN Collects(ar)
           ELSE IF debug_assertions
                     /\ \E i \in 1..Len(arena[node].attrs) :
                            expand_string_asserts(arena[node].attrs[i][2], given.invocation)
           THEN Panics
           ELSE \E cloned \in {clone_forest(ar, <<Current.replacement>>, 0, TRUE)} :
                \E orig_attrs \in {expanded_attributes(arena[node].attrs, given.invocation)} :
                    Returns(replace([cloned.arena EXCEPT ![cloned.ids[1]].attrs =
                                        insert_attributes(@, orig_attrs)],
                                    node, cloned.ids[1]))
    /\ UNCHANGED <<given, outer>>

\* substitute_tag, lines 117-120
SubstituteTagChild ==
    /\ phase = "substitute" /\ Current.fn = "substitute_tag"
    /\ Descends
    /\ UNCHANGED <<given, outer>>

SubstituteTagReturn ==
    /\ phase = "substitute" /\ Current.fn = "substitute_tag"
    /\ Looped
    /\ Returns(arena)
    /\ UNCHANGED <<given, outer>>

\* the children of the first child of node that is an element named name
\* (lines 260-283), none when there is no such child
branch_nodes(ar, node, name) ==
    LET found == SelectSeq(ar[node].children,
                           LAMBDA c : ar[c].kind = "element" /\ ar[c].name = name)
    IN  IF name \in names /\ found # <<>> THEN ar[found[1]].children ELSE <<>>

\* substitute_if with substitute_invocation called again on the copies of the
\* selected branch that it has inserted
SubstituteIf_revisiting ==
    /\ Rewritten /\ arena[Current.node].name = IF_
    /\ LET node == Current.node
           attrs == arena[node].attrs
       IN  IF Len(attrs) # 1 THEN Panics
           ELSE IF debug_assertions
                     /\ ( \/ evaluate_expression_asserts(attrs[1][1], given.invocation)
                          \/ expand_string_asserts(attrs[1][2], given.invocation) )
           THEN Panics
           ELSE IF expression_matches_pattern_panics(attrs[1][1], attrs[1][2],
                                                     given.invocation)
           THEN Panics
           ELSE \E branch \in {IF expression_matches_pattern(attrs[1][1], attrs[1][2],
                                                             given.invocation)
                               THEN THEN_ ELSE ELSE_} :
                \E cloned \in {clone_forest(arena,
                                   trees(arena, branch_nodes(arena, node, branch)), 0, TRUE)} :
                    /\ arena' = remove(insert_before(cloned.arena, node, cloned.ids), node)
                    /\ calls' = [calls EXCEPT ![Len(calls)] =
                                    [Active("substitute_invocation", arena[node].parent,
                                            <<>>, Nothing)
                                        EXCEPT !.at = "loop", !.children = cloned.ids]]
                    /\ phase' = phase
    /\ UNCHANGED <<given, outer>>

\* substitute_invocation, lines 413-415, and substitute_if
SubstituteIf ==
    /\ Rewritten /\ arena[Current.node].name = IF_
    /\ LET node == Current.node
           attrs == arena[node].attrs
       IN  IF Len(attrs) # 1 THEN Panics
           ELSE IF debug_assertions
                     /\ ( \/ evaluate_expression_asserts(attrs[1][1], given.invocation)
                          \/ expand_string_asserts(attrs[1][2], given.invocation) )
           THEN Panics
           ELSE IF expression_matches_pattern_panics(attrs[1][1], attrs[1][2],
                                                     given.invocation)
           THEN Panics
           ELSE \E branch \in {IF expression_matches_pattern(attrs[1][1], attrs[1][2],
                                                             given.invocation)
                               THEN THEN_ ELSE ELSE_} :
                \E cloned \in {clone_forest(arena,
                                   trees(arena, branch_nodes(arena, node, branch)), 0, TRUE)} :
                    Returns(remove(insert_before(cloned.arena, node, cloned.ids), node))
    /\ UNCHANGED <<given, outer>>

\* substitute_invocation, lines 418-420, and substitute_attr
SubstituteAttr ==
    /\ Rewritten /\ starts_with(arena[Current.node].name, SELF_)
    /\ LET node == Current.node
           attr_name == strip_prefix(arena[node].name, SELF_)
       IN  IF attr_name = INNER
           THEN \E cloned \in {clone_forest(arena, given.invocation.children, 0, TRUE)} :
                    Returns(remove(insert_before(cloned.arena, node, cloned.ids), node))
           ELSE IF attr_name \notin names THEN Returns(arena)
           ELSE IF ~has_attribute(given.invocation, attr_name) THEN Returns(arena)
           ELSE IF attribute(given.invocation, attr_name) = <<>>
           THEN Returns(detach(arena, node))
           ELSE \E cloned \in {clone_forest(arena,
                                  <<Text(attribute(given.invocation, attr_name))>>, 0, TRUE)} :
                    Returns(detach(insert_before(cloned.arena, node, cloned.ids), node))
    /\ UNCHANGED <<given, outer>>

\* substitute_invocation, line 423: any other element
SubstitutePlain ==
    /\ Rewritten
    /\ ~starts_with(arena[Current.node].name, FOREACHCHILD_)
    /\ arena[Current.node].name # IF_
    /\ ~starts_with(arena[Current.node].name, SELF_)
    /\ Returns(arena)
    /\ UNCHANGED <<given, outer>>

\* one step of an instantiate call
InstantiateNext ==
    \/ InstantiateCall
    \/ ExpandAttributes
    \/ ExpandChild
    \/ ExpandReturn
    \/ SubstituteInvocationEnter
    \/ SubstituteInvocationChild
    \/ SubstituteForeachEnter
    \/ SubstituteForeachChild
    \/ SubstituteForeachReturn
    \/ SubstituteTagEnter
    \/ SubstituteTagChild
    \/ SubstituteTagReturn
    \/ SubstituteIf
    \/ SubstituteAttr
    \/ SubstitutePlain

---------------------------------------------------------------------------
(* substitute and generate_file as a state machine.  Each active call of   *)
(* substitute is a frame: the node it was given (with the children it has  *)
(* now, and as it was when the call began), the position of its scan, its  *)
(* did_anything flag and whether the node has been detached from the tree  *)
(* by a component match.                                                   *)

MaxNodes == 60

Frame(node) ==
    [node |-> node, given |-> node, at |-> "enter", idx |-> 1, did_anything |-> FALSE,
     detached |-> FALSE]

Top == stack[Len(stack)]

RECURSIVE TreeSize(_), ForestSize(_)
TreeSize(n) == 1 + ForestSize(n.children)

ForestSize(nodes) == IF nodes = <<>> THEN 0 ELSE TreeSize(Head(nodes)) + ForestSize(Tail(nodes))

\* the nodes alive in the arena: the document and the nodes of the active calls
ArenaSize(st, done, rest) ==
    ForestSize([i \in 1..Len(st) |-> st[i].node]) + ForestSize(done) + ForestSize(rest)

NoCall == [tag |-> <<>>, definition |-> Element(<<>>, <<>>, <<>>),
           invocation |-> Element(<<>>, <<>>, <<>>), panic |-> FALSE, nodes |-> <<>>]

Call(tag, invocation, r) ==
    [tag |-> tag, definition |-> library[tag], invocation |-> invocation,
     panic |-> r.panic, nodes |-> r.nodes]

\* Return with the scan restarted after every child, changed or not
Return_restart_always(result) ==
    IF Len(stack) = 1
    THEN /\ stack' = <<>>
         /\ doc_done' = (IF Top.detached THEN doc_done ELSE Append(doc_done, Top.node))
         /\ pc' = "driver"
    ELSE LET caller == stack[Len(stack) - 1]
             children == IF Top.detached THEN caller.node.children
                         ELSE [caller.node.children EXCEPT ![caller.idx] = Top.node]
         IN  /\ stack' = SubSeq(stack, 1, Len(stack) - 2) \o
                           <<[caller EXCEPT !.node.children = children,
                                            !.idx = 1,
                                            !.did_anything = @ \/ result]>>
             /\ doc_done' = doc_done
             /\ pc' = pc

\* Return with the caller's scan going on behind the child that changed
Return_without_restart(result) ==
    IF Len(stack) = 1
    THEN /\ stack' = <<>>
         /\ doc_done' = (IF Top.detached THEN doc_done ELSE Append(doc_done, Top.node))
         /\ pc' = "driver"
    ELSE LET caller == stack[Len(stack) - 1]
             children == IF Top.detached THEN caller.node.children
                         ELSE [caller.node.children EXCEPT ![caller.idx] = Top.node]
         IN  /\ stack' = SubSeq(stack, 1, Len(stack) - 2) \o
                           <<[caller EXCEPT !.node.children = children,
                                            !.idx = @ + 1,
                                            !.did_anything = @ \/ result]>>
             /\ doc_done' = doc_done
             /\ pc' = pc

\* Return with the caller's did_anything left as it was (line 537 missing)
Return_flag_dropped(result) ==
    IF Len(stack) = 1
    THEN /\ stack' = <<>>
         /\ doc_done' = (IF Top.detached THEN doc_done ELSE Append(doc_done, Top.node))
         /\ pc' = "driver"
    ELSE LET caller == stack[Len(stack) - 1]
             children == IF Top.detached THEN caller.node.children
                         ELSE [caller.node.children EXCEPT ![caller.idx] = Top.node]
         IN  /\ stack' = SubSeq(stack, 1, Len(stack) - 2) \o
                           <<[caller EXCEPT !.node.children = children,
                                            !.idx = IF result THEN 1 ELSE @ + 1]>>
             /\ doc_done' = doc_done
             /\ pc' = pc

\* substitute returns result to its caller: the loop of the calling substitute
\* (lines 535-543) or the loop of generate_file (lines 583-585)
Return(result) ==
    IF Len(stack) = 1
    THEN /\ stack' = <<>>
         /\ doc_done' = (IF Top.detached THEN doc_done ELSE Append(doc_done, Top.node))
         /\ pc' = "driver"
    ELSE LET caller == stack[Len(stack) - 1]
             children == IF Top.detached THEN caller.node.children
                         ELSE [caller.node.children EXCEPT ![caller.idx] = Top.node]
         IN  /\ stack' = SubSeq(stack, 1, Len(stack) - 2) \o
                           <<[caller EXCEPT !.node.children = children,
                                            !.idx = IF result THEN 1 ELSE @ + 1,
                                            !.did_anything = @ \/ result]>>
             /\ doc_done' = doc_done
             /\ pc' = pc

\* the active calls after the instantiation has been inserted before the
\* invocation and the invocation detached (lines 521-528)
Spliced(instantiation) ==
    LET callee == [Top EXCEPT !.at = "loop", !.idx = 1, !.did_anything = TRUE, !.detached = TRUE]
    IN  IF Len(stack) = 1 THEN <<callee>>
        ELSE LET caller == stack[Len(stack) - 1]
                 children == SubSeq(caller.node.children, 1, caller.idx - 1)
                               \o instantiation
                               \o SubSeq(caller.node.children, caller.idx + 1,
                                         Len(caller.node.children))
             IN  SubSeq(stack, 1, Len(stack) - 2)
                   \o <<[caller EXCEPT !.node.children = children], callee>>

\* generate_file, lines 582-585: the next collected top-level child
DriverCall ==
    /\ pc = "driver" /\ doc_rest # <<>>
    /\ stack' = <<Frame(Head(doc_rest))>>
    /\ doc_rest' = Tail(doc_rest)
    /\ pc' = "substitute"
    /\ UNCHANGED <<doc_done, library, names, file_path, debug_assertions, strict_document,
                   loaded, source, last>>
    /\ UNCHANGED traced

\* generate_file, line 587 on: every top-level child has been visited
DriverFinish ==
    /\ pc = "driver" /\ doc_rest = <<>>
    /\ pc' = "done"
    /\ UNCHANGED <<doc_done, doc_rest, stack, library, names, file_path, debug_assertions,
                   strict_document, loaded, source, last>>
    /\ UNCHANGED traced

\* substitute, lines 510-512
SubstituteNotElement ==
    /\ pc = "substitute" /\ Top.at = "enter" /\ ~is_element(Top.node)
    /\ Return(FALSE)
    /\ UNCHANGED <<doc_rest, library, names, file_path, debug_assertions, strict_document,
                   loaded, source, last>>
    /\ UNCHANGED traced

\* substitute, line 517: the element is no component
SubstituteNoMatch ==
    /\ pc = "substitute" /\ Top.at = "enter" /\ is_element(Top.node)
    /\ Top.node.name \notin DOMAIN library
    /\ stack' = [stack EXCEPT ![Len(stack)].at = "loop"]
    /\ UNCHANGED <<pc, doc_done, doc_rest, library, names, file_path, debug_assertions,
                   strict_document, loaded, source, last>>
    /\ UNCHANGED traced

IsMatch ==
    /\ pc = "substitute" /\ Top.at = "enter" /\ is_element(Top.node)
    /\ Top.node.name \in DOMAIN library

\* whether the tree library refuses to put the instantiation beside a top-level node
Refused == Len(stack) = 1 /\ strict_document

RECURSIVE children_instantiated(_)
\* the children with each invocation among them replaced by its instantiation
children_instantiated(children) ==
    IF children = <<>> THEN <<>>
    ELSE (IF is_element(Head(children)) /\ Head(children).name \in DOMAIN library
          THEN instantiate(library[Head(children).name], Head(children)).nodes
          ELSE <<Head(children)>>)
         \o children_instantiated(Tail(children))

\* the match made after the children of the node have been expanded
SubstituteMatch_children_first ==
    /\ IsMatch
    /\ \E node \in {[Top.node EXCEPT !.children = children_instantiated(@)]} :
       \E r \in {instantiate(library[node.name], node)} :
          /\ ~r.panic /\ ~Refused
          /\ stack' = Spliced(r.nodes)
          /\ doc_done' = (IF Len(stack) = 1 THEN doc_done \o r.nodes ELSE doc_done)
          /\ ArenaSize(stack', doc_done', doc_rest) <= MaxNodes
          /\ library' = [library EXCEPT ![node.name] = r.stored]
          /\ last' = Call(node.name, node, r)
    /\ UNCHANGED <<pc, doc_rest, names, file_path, debug_assertions, strict_document,
                   loaded, source>>
    /\ UNCHANGED traced

\* substitute, lines 517-529
SubstituteMatch ==
    /\ IsMatch
    /\ \E r \in {instantiate(library[Top.node.name], Top.node)} :
       /\ ~r.panic /\ ~Refused
       /\ stack' = Spliced(r.nodes)
       /\ doc_done' = (IF Len(stack) = 1 THEN doc_done \o r.nodes ELSE doc_done)
       /\ ArenaSize(stack', doc_done', doc_rest) <= MaxNodes
       /\ library' = [library EXCEPT ![Top.node.name] = r.stored]
       /\ last' = Call(Top.node.name, Top.node, r)
    /\ UNCHANGED <<pc, doc_rest, names, file_path, debug_assertions, strict_document,
                   loaded, source>>
    /\ UNCHANGED traced

\* a panic inside instantiate ends the run
SubstitutePanic ==
    /\ IsMatch
    /\ \E r \in {instantiate(library[Top.node.name], Top.node)} :
       /\ r.panic
       /\ library' = [library EXCEPT ![Top.node.name] = r.stored]
       /\ last' = Call(Top.node.name, Top.node, r)
    /\ pc' = "aborted"
    /\ UNCHANGED <<doc_done, doc_rest, stack, names, file_path, debug_assertions,
                   strict_document, loaded, source>>
    /\ UNCHANGED traced

\* insert_before / detach under the document node is an error, which
\* generate_file turns into a panic (line 584)
SubstituteRefused ==
    /\ IsMatch
    /\ \E r \in {instantiate(library[Top.node.name], Top.node)} :
       /\ ~r.panic /\ Refused
       /\ library' = [library EXCEPT ![Top.node.name] = r.stored]
       /\ last' = Call(Top.node.name, Top.node, r)
    /\ pc' = "aborted"
    /\ UNCHANGED <<doc_done, doc_rest, stack, names, file_path, debug_assertions,
                   strict_document, loaded, source>>
    /\ UNCHANGED traced

\* the arena has outgrown the model
Cutoff ==
    /\ IsMatch
    /\ \E r \in {instantiate(library[Top.node.name], Top.node)} :
       /\ ~r.panic /\ ~Refused
       /\ ArenaSize(Spliced(r.nodes),
                    IF Len(stack) = 1 THEN doc_done \o r.nodes ELSE doc_done,
                    doc_rest) > MaxNodes
    /\ pc' = "cutoff"
    /\ UNCHANGED <<doc_done, doc_rest, stack, library, names, file_path, debug_assertions,
                   strict_document, loaded, source, last>>
    /\ UNCHANGED traced

\* substitute, lines 533-535: the scan reaches a child and calls substitute on it
SubstituteDescend ==
    /\ pc = "substitute" /\ Top.at = "loop" /\ Top.idx <= Len(Top.node.children)
    /\ stack' = Append(stack, Frame(Top.node.children[Top.idx]))
    /\ UNCHANGED <<pc, doc_done, doc_rest, library, names, file_path, debug_assertions,
                   strict_document, loaded, source, last>>
    /\ UNCHANGED traced

\* substitute, lines 541-546: a scan found nothing to expand
SubstituteReturn ==
    /\ pc = "substitute" /\ Top.at = "loop" /\ Top.idx > Len(Top.node.children)
    /\ Return(Top.did_anything)
    /\ UNCHANGED <<doc_rest, library, names, file_path, debug_assertions, strict_document,
                   loaded, source, last>>
    /\ UNCHANGED traced

Next ==
    \/ DriverCall
    \/ DriverFinish
    \/ SubstituteNotElement
    \/ SubstituteNoMatch
    \/ SubstituteMatch
    \/ SubstitutePanic
    \/ SubstituteRefused
    \/ Cutoff
    \/ SubstituteDescend
    \/ SubstituteReturn

---------------------------------------------------------------------------
(* The inputs: component libraries and documents as the parser delivers    *)
(* them.  A scenario is a library, a document (its top-level nodes), the   *)
(* names interned by documents generated earlier in the run, and the build.*)

MaxKids == 2

\* the element with no attributes
Plain(name, children) == Element(name, <<>>, children)

\* a component file: its top-level nodes under the <throwaway> wrapper (lines 439-440)
Definition(nodes) == Plain(THROWAWAY, nodes)

\* the sequences over pool of length at most n
SeqsUpTo(pool, n) == UNION {[1..k -> pool] : k \in 0..n}

RECURSIVE NamesOf(_)
\* the names a parse of the tree interns: element names and attribute names
NamesOf(n) ==
    IF ~is_element(n) THEN {}
    ELSE {n.name} \cup {n.attrs[i][1] : i \in 1..Len(n.attrs)}
           \cup UNION {NamesOf(n.children[i]) : i \in 1..Len(n.children)}

Scenario(lib, doc, interned, debug, strict) ==
    [lib |-> lib, doc |-> doc, interned |-> interned, debug |-> debug, strict |-> strict]

\* a document whose root element holds the nodes, after a leading comment
Page(nodes) == <<Comment(<<"c">>), Plain(<<"h">>, nodes)>>

\* Components that invoke components.
ChainLibrary ==
    (<<"a">> :> Definition(<<Plain(<<"p">>, <<Plain(<<"b">>, <<>>)>>)>>))
    @@ (<<"b">> :> Definition(<<Plain(<<"q">>, <<>>), Text(<<"t">>)>>))

WrapLibrary ==
    (<<"a">> :> Definition(<<Plain(<<"d">>, <<Plain(SELF_ \o INNER, <<>>)>>)>>))
    @@ (<<"b">> :> Definition(<<>>))

\* a invokes b and b invokes a, each with another attribute
MutualLibrary ==
    (<<"a">> :> Definition(<<Element(<<"b">>, <<<<<<"x">>, <<"a">>>>>>, <<>>)>>))
    @@ (<<"b">> :> Definition(<<Element(<<"a">>, <<<<<<"y">>, <<"b">>>>>>, <<>>)>>))

\* a invokes b while its attribute n matches pattern; b invokes a with n = value
GuardedLibrary(pattern, value) ==
    (<<"a">> :> Definition(<<Element(IF_, <<<<SELF_ \o <<"n">>, pattern>>>>,
                               <<Plain(THEN_, <<Plain(<<"b">>, <<>>)>>),
                                 Plain(ELSE_, <<Plain(<<"q">>, <<>>)>>)>>)>>))
    @@ (<<"b">> :> Definition(<<Element(<<"a">>, <<<<<<"n">>, value>>>>, <<>>)>>))

GuardedLibraries ==
    {GuardedLibrary(pattern, value) : pattern \in {<<"a">>, <<"b">>}, value \in {<<"a">>, <<"b">>}}

\* a invokes itself inside an element
GrowingLibrary ==
    (<<"a">> :> Definition(<<Plain(<<"p">>, <<Plain(<<"a">>, <<>>)>>)>>))

\* what an invocation may hold
Kids == {Plain(<<"s">>, <<>>), Plain(<<"b">>, <<>>), Text(<<"t">>)}

NestingScenarios ==
    {Scenario(lib, doc, {}, FALSE, strict) :
        lib \in {ChainLibrary, WrapLibrary, MutualLibrary, GrowingLibrary} \cup GuardedLibraries,
        doc \in {<<Element(<<"a">>, <<<<<<"n">>, n>>>>, kids)>> :
                    n \in {<<"a">>, <<"b">>}, kids \in SeqsUpTo(Kids, MaxKids)}
                \cup {Page(<<Element(<<"a">>, <<<<<<"n">>, n>>>>, kids)>> \o rest) :
                        n \in {<<"a">>, <<"b">>}, kids \in SeqsUpTo(Kids, MaxKids),
                        rest \in SeqsUpTo({Plain(<<"b">>, <<>>)}, 1)},
        strict \in BOOLEAN}

\* ${self.name}
Placeholder(name) == <<"$", "{">> \o SELF_ \o name \o <<"}">>

\* the attribute lists that give key one of the values, or leave it out
Optional(key, values) == {<<>>} \cup {<<<<key, v>>>> : v \in values}

\* a page that invokes component a with the attributes and children
Invoke(attrs, kids) == Page(<<Element(<<"a">>, attrs, kids)>>)

\* Loops.  The loop variable is written <v/> or, as in the loop example of the
\* documentation, <self.v/>; OccurrenceLoop gives the occurrence an attribute.
ItemLoop ==
    Definition(<<Plain(<<"u", "l">>,
        <<Plain(FOREACHCHILD_ \o <<"v">>,
            <<Plain(<<"l", "i">>, <<Plain(<<"v">>, <<>>)>>)>>)>>)>>)

SelfItemLoop ==
    Definition(<<Plain(<<"u", "l">>,
        <<Plain(FOREACHCHILD_ \o <<"v">>,
            <<Plain(<<"l", "i">>, <<Plain(SELF_ \o <<"v">>, <<>>)>>)>>)>>)>>)

\* a template that does not mention the loop variable
FixedLoop ==
    Definition(<<Plain(<<"u", "l">>,
        <<Plain(FOREACHCHILD_ \o <<"v">>, <<Plain(<<"l", "i">>, <<>>)>>)>>)>>)

\* a template that mentions it twice, at two depths
DeepLoop ==
    Definition(<<Plain(<<"u", "l">>,
        <<Plain(FOREACHCHILD_ \o <<"v">>,
            <<Plain(<<"l", "i">>,
                <<Plain(<<"v">>, <<>>), Plain(<<"p">>, <<Plain(<<"v">>, <<>>)>>)>>)>>)>>)>>)

OccurrenceLoop(written) ==
    Definition(<<Plain(FOREACHCHILD_ \o <<"v">>,
        <<Plain(<<"l", "i">>, <<Element(<<"v">>, <<<<<<"t">>, written>>>>, <<>>)>>)>>)>>)

LoopKids ==
    {Plain(<<"s">>, <<Text(<<"a">>)>>), Element(<<"s">>, <<<<<<"t">>, <<"b">>>>>>, <<>>),
     Plain(<<"v">>, <<>>), Text(<<"t">>), Comment(<<"c">>)}

LoopScenarios ==
    {Scenario(<<"a">> :> body, Invoke(<<>>, kids), interned, debug, FALSE) :
        body \in {ItemLoop, SelfItemLoop, FixedLoop, DeepLoop},
        kids \in SeqsUpTo(LoopKids, MaxKids),
        interned \in {{}, {<<"v">>}},
        debug \in BOOLEAN}

\* Order of expansion: a loops over its children, b stands for an element and text
OrderLibrary ==
    (<<"a">> :> ItemLoop)
    @@ (<<"b">> :> Definition(<<Plain(<<"q">>, <<>>), Text(<<"t">>)>>))

OrderScenarios ==
    {Scenario(OrderLibrary, Invoke(<<>>, kids), {}, FALSE, FALSE) :
        kids \in SeqsUpTo(Kids, MaxKids)}

\* A loop whose template also takes in the caller's children, which may hold
\* an element named like the loop variable, at the top or inside another child
CaptureLoop ==
    Definition(<<Plain(<<"u", "l">>,
        <<Plain(FOREACHCHILD_ \o <<"v">>,
            <<Plain(<<"l", "i">>,
                <<Plain(<<"v">>, <<>>), Plain(SELF_ \o INNER, <<>>)>>)>>)>>)>>)

CaptureKids ==
    {Plain(<<"s">>, <<>>), Plain(<<"v">>, <<Text(<<"a">>)>>),
     Plain(<<"s">>, <<Plain(<<"v">>, <<>>)>>), Text(<<"t">>)}

CaptureScenarios ==
    {Scenario(<<"a">> :> body, Invoke(<<>>, kids), {}, debug, FALSE) :
        body \in {CaptureLoop, ItemLoop},
        kids \in SeqsUpTo(CaptureKids, MaxKids),
        debug \in BOOLEAN}

\* Attribute values an invocation may carry
Values == {<<>>, <<"a">>, <<"b">>, <<"a", "b">>}

\* values that spell (part of) a placeholder
Spelled == {Placeholder(<<"y">>), <<"{">> \o SELF_ \o <<"y", "}">>}

\* Text, attributes and <self.x> of a body
LabelBody ==
    Definition(<<Element(<<"d">>, <<<<<<"t">>, Placeholder(<<"x">>)>>>>,
                         <<Text(Placeholder(<<"x">>))>>)>>)

SelfAttrBody ==
    Definition(<<Plain(<<"d">>, <<Text(<<"t">>), Plain(SELF_ \o <<"x">>, <<>>),
                                   Plain(<<"s">>, <<>>)>>)>>)

InnerBody ==
    Definition(<<Plain(<<"d">>, <<Plain(SELF_ \o INNER, <<>>), Plain(<<"s">>, <<>>),
                                   Plain(SELF_ \o INNER, <<>>)>>)>>)

AttributeScenarios ==
    {Scenario(<<"a">> :> body, Invoke(x \o y, kids), interned, debug, FALSE) :
        body \in {LabelBody, SelfAttrBody, InnerBody},
        x \in Optional(<<"x">>, Values \cup Spelled),
        y \in Optional(<<"y">>, {<<"a">>}),
        kids \in SeqsUpTo({Plain(<<"s">>, <<>>), Text(<<"t">>)}, 1),
        interned \in {{}, {<<"x">>}},
        debug \in BOOLEAN}

\* <self.inner> with elements, text and comments among the children
InnerKids == {Plain(<<"s">>, <<Text(<<"a">>)>>), Text(<<"t">>), Comment(<<"c">>)}

InnerScenarios ==
    {Scenario(<<"a">> :> InnerBody, Invoke(<<>>, kids), {}, debug, FALSE) :
        kids \in SeqsUpTo(InnerKids, MaxKids),
        debug \in BOOLEAN}

\* Attributes on the root of a body, below a branch of an <if> whose pattern is
\* a placeholder, and on content that <self.inner> brings in from the caller
PrepassBody ==
    Definition(<<Element(<<"d">>, <<<<<<"t">>, Placeholder(<<"x">>)>>>>,
        <<Element(IF_, <<<<SELF_ \o <<"y">>, Placeholder(<<"x">>)>>>>,
                  <<Plain(THEN_, <<Element(<<"p">>, <<<<<<"t">>, Placeholder(<<"x">>)>>>>,
                                           <<>>)>>)>>),
          Plain(SELF_ \o INNER, <<>>)>>)>>)

PrepassScenarios ==
    {Scenario(<<"a">> :> PrepassBody,
              Invoke(<<<<<<"x">>, x>>, <<<<"y">>, <<"a">>>>>>, kids), {}, debug, FALSE) :
        x \in {<<"a">>, <<"b">>},
        kids \in SeqsUpTo({Element(<<"s">>, <<<<<<"t">>, Placeholder(<<"x">>)>>>>, <<>>)}, 1),
        debug \in BOOLEAN}

\* Conditionals: <if self.x="pattern"> with or without <then> and <else>
IfBody(attrs, branches) == Definition(<<Plain(<<"d">>, <<Element(IF_, attrs, branches)>>)>>)

ThenBranch == Plain(THEN_, <<Plain(<<"p">>, <<>>), Text(<<"t">>)>>)

ElseBranch == Plain(ELSE_, <<Plain(<<"q">>, <<>>)>>)

Branches == {<<ThenBranch, ElseBranch>>, <<ElseBranch, ThenBranch>>, <<ThenBranch>>,
             <<ElseBranch>>, <<>>}

Patterns == {<<>>, <<"a">>, <<"a", "b">>, <<"a", "|", "b">>, <<".">>, <<"(">>,
             Placeholder(<<"y">>)}

IfScenarios ==
    {Scenario(<<"a">> :> IfBody(<<<<SELF_ \o <<"x">>, pattern>>>>, branches),
              Invoke(x \o y, <<>>), {}, FALSE, FALSE) :
        pattern \in Patterns,
        branches \in Branches,
        x \in Optional(<<"x">>, Values \cup {<<"b", "a">>}),
        y \in Optional(<<"y">>, {<<"a">>})}
    \cup
    {Scenario(<<"a">> :> IfBody(attrs, <<ThenBranch, ElseBranch>>),
              Invoke(<<>>, <<>>), {}, FALSE, FALSE) :
        attrs \in {<<>>, <<<<SELF_ \o <<"x">>, <<>>>>, <<SELF_ \o <<"y">>, <<>>>>>>}}

\* Malformed conditionals: no attribute, two attributes, a pattern that is no
\* regular expression as written or once expanded; the page goes on after the
\* invocation
FatalAttributes ==
    {<<>>,
     <<<<SELF_ \o <<"x">>, <<"a">>>>, <<SELF_ \o <<"y">>, <<"(">>>>>>,
     <<<<SELF_ \o <<"x">>, <<"(">>>>>>,
     <<<<SELF_ \o <<"x">>, Placeholder(<<"y">>)>>>>}

FatalScenarios ==
    {Scenario(<<"a">> :> IfBody(attrs, branches),
              Page(<<Element(<<"a">>, x \o <<<<<<"y">>, <<"(">>>>>>, <<>>), Plain(<<"s">>, <<>>)>>),
              {}, debug, FALSE) :
        attrs \in FatalAttributes,
        branches \in {<<ThenBranch, ElseBranch>>, <<>>},
        x \in Optional(<<"x">>, {<<"a">>, <<"(">>}),
        debug \in BOOLEAN}

\* Expressions: ${A||B} in an attribute
Sides == {SELF_ \o <<"x">>, SELF_ \o <<"y">>, SELF_FILEPATH, <<"z">>}

DefaultBody(a, b) ==
    Definition(<<Element(<<"d">>, <<<<<<"t">>, <<"$", "{">> \o a \o <<"|", "|">> \o b \o <<"}">>>>>>,
                         <<>>)>>)

DefaultScenarios ==
    {Scenario(<<"a">> :> DefaultBody(a, b), Invoke(x \o y, <<>>), {}, debug, FALSE) :
        a \in Sides, b \in Sides,
        x \in Optional(<<"x">>, {<<>>, <<"a">>, <<"$", "a">>}),
        y \in Optional(<<"y">>, {<<>>, <<"b">>, <<"$">>}),
        debug \in BOOLEAN}

\* Placeholders met twice: in an ordinary attribute, in the pattern of an <if>
\* and on an occurrence of a loop variable
Written == {Placeholder(<<"x">>), <<"$">> \o Placeholder(<<"x">>)}

PlainAttribute(written) ==
    Definition(<<Element(<<"d">>, <<<<<<"t">>, written>>>>, <<>>)>>)

ExpansionScenarios ==
    {Scenario(<<"a">> :> body, Invoke(x \o <<<<<<"y">>, <<"a">>>>>>, <<Plain(<<"s">>, <<>>)>>),
              {}, debug, FALSE) :
        body \in {PlainAttribute(w) : w \in Written}
                   \cup {OccurrenceLoop(w) : w \in Written}
                   \cup {IfBody(<<<<SELF_ \o <<"y">>, w>>>>, <<ThenBranch, ElseBranch>>) :
                            w \in Written},
        x \in Optional(<<"x">>, {<<"a">>} \cup Spelled),
        debug \in BOOLEAN}

\* Advisory errors: an unrecognized expression, references to an attribute the
\* invocation may lack, and an <if> without branches, in a page that goes on
\* after the invocation
AdvisoryBody ==
    Definition(<<Element(<<"d">>,
        <<<<<<"t">>, <<"$", "{", "z", "}">>>>, <<<<"u">>, Placeholder(<<"x">>)>>>>,
        <<Text(<<"t">>), Plain(SELF_ \o <<"x">>, <<>>),
          Element(IF_, <<<<SELF_ \o <<"y">>, <<"a">>>>>>, <<>>), Plain(<<"s">>, <<>>)>>)>>)

AdvisoryScenarios ==
    {Scenario(<<"a">> :> AdvisoryBody,
              Page(<<Element(<<"a">>, x \o y, <<>>), Plain(<<"s">>, <<>>)>>),
              interned, debug, FALSE) :
        x \in Optional(<<"x">>, {<<>>, <<"a">>}),
        y \in Optional(<<"y">>, {<<"a">>, <<"b">>}),
        interned \in {{}, {<<"x">>}},
        debug \in BOOLEAN}

\* Conditionals inside the branches of a conditional: the outer <if> tests
\* self.x against "a"; one branch holds a plain element, the other holds inner
NestedIfBody(inner, inner_in_then) ==
    IfBody(<<<<SELF_ \o <<"x">>, <<"a">>>>>>,
           IF inner_in_then
           THEN <<Plain(THEN_, <<inner>>), Plain(ELSE_, <<Plain(<<"p">>, <<>>)>>)>>
           ELSE <<Plain(THEN_, <<Plain(<<"p">>, <<>>)>>), Plain(ELSE_, <<inner>>)>>)

\* what stands in the other branch: an <if> with no attribute, with two, with a
\* pattern that is no regular expression, a well-formed <if>, a plain element
NestedInner ==
    {Element(IF_, attrs, <<ThenBranch, ElseBranch>>) : attrs \in FatalAttributes \ {<<<<SELF_ \o <<"x">>, Placeholder(<<"y">>)>>>>}}
      \cup {Element(IF_, <<<<SELF_ \o <<"y">>, <<"b">>>>>>, <<ThenBranch, ElseBranch>>),
            Plain(<<"q">>, <<>>)}

NestedIfScenarios ==
    {Scenario(<<"a">> :> NestedIfBody(inner, inner_in_then),
              Page(<<Element(<<"a">>, x \o y, <<>>), Plain(<<"s">>, <<>>)>>),
              {}, debug, FALSE) :
        inner \in NestedInner,
        inner_in_then \in BOOLEAN,
        x \in Optional(<<"x">>, {<<"a">>, <<"b">>}),
        y \in Optional(<<"y">>, {<<"b">>}),
        debug \in BOOLEAN}

Scenarios ==
    NestingScenarios \cup LoopScenarios \cup AttributeScenarios \cup IfScenarios
      \cup DefaultScenarios \cup ExpansionScenarios \cup AdvisoryScenarios
      \cup OrderScenarios \cup InnerScenarios \cup PrepassScenarios
      \cup FatalScenarios \cup CaptureScenarios \cup NestedIfScenarios

\* the state of the program once the library and the document are loaded
Loaded(s) ==
    /\ pc = "driver"
    /\ doc_done = <<>>
    /\ doc_rest = s.doc
    /\ stack = <<>>
    /\ library = s.lib
    /\ names = {THROWAWAY} \cup DOMAIN s.lib \cup s.interned
                 \cup UNION {NamesOf(s.lib[t]) : t \in DOMAIN s.lib}
                 \cup UNION {NamesOf(s.doc[i]) : i \in 1..Len(s.doc)}
    /\ file_path = <<"/", "f">>
    /\ debug_assertions = s.debug
    /\ strict_document = s.strict
    /\ loaded = s.lib
    /\ source = s.doc
    /\ last = NoCall

InitFrom(scenarios) ==
    \E s \in scenarios :
        /\ Loaded(s)
        /\ phase = "idle"
        /\ arena = <<>>
        /\ calls = <<>>
        /\ given = NoCall

Init == InitFrom(Scenarios)

Spec == Init /\ [][Next]_vars

\* generate_file runs on one thread and never waits: a step that can be taken is taken
FairSpec == Init /\ [][Next]_vars /\ WF_vars(Next)

---------------------------------------------------------------------------
(* Vocabulary of the properties *)

RECURSIVE ElementNames(_)
\* the names of the elements of a tree
ElementNames(n) ==
    IF ~is_element(n) THEN {}
    ELSE {n.name} \cup UNION {ElementNames(n.children[i]) : i \in 1..Len(n.children)}

ForestNames(nodes) == UNION {ElementNames(nodes[i]) : i \in 1..Len(nodes)}

\* the generated document
Output == doc_done

Finished == pc \in {"done", "aborted"}

\* the components whose invocation the body of t spells out
Invokes(lib, t) == ElementNames(lib[t]) \cap DOMAIN lib

RECURSIVE Reaches(_, _, _)
\* the components reached from the set ts by at most n instantiations
Reaches(lib, ts, n) ==
    IF n = 0 THEN ts
    ELSE Reaches(lib, ts \cup UNION {Invokes(lib, t) : t \in ts}, n - 1)

\* no component body can, through a chain of instantiations, invoke its own component
Acyclic(lib) ==
    \A t \in DOMAIN lib :
        t \notin Reaches(lib, Invokes(lib, t), Cardinality(DOMAIN lib))

\* the document's root element is itself a component invocation
RootIsInvocation ==
    \E i \in 1..Len(source) : is_element(source[i]) /\ source[i].name \in DOMAIN loaded

---------------------------------------------------------------------------
(* C1 *)

---------------------------------------------------------------------------
(* C2 *)

\* C2: with an acyclic component library every call of substitute returns, so
\* the run of generate_file ends; a run that never ends needs a component that
\* can invoke itself again.
C2_AcyclicTerminates == Acyclic(loaded) => <>Finished

\* an acyclic library whose component a invoked b, expanded to the end below the root
C2_Witness ==
    /\ pc = "done" /\ Acyclic(library) /\ ~RootIsInvocation
    /\ last.tag = <<"b">>
    /\ <<"a">> \in ForestNames(source[Len(source)].children)
    /\ Invokes(library, <<"a">>) = {<<"b">>}

---------------------------------------------------------------------------
(* C4 *)

\* C4: whatever has been instantiated so far, every definition tree of the
\* library is as it was loaded.
C4_LibraryUnchanged == library = loaded

\* an instantiation that rewrote constructs of the body has happened
C4_Witness ==
    /\ last.tag # <<>> /\ ~last.panic
    /\ last.nodes # last.definition.children
    /\ library[last.tag] = last.definition

---------------------------------------------------------------------------
(* C3 *)

\* a invokes b and b invokes a
Mutual(lib) ==
    /\ {<<"a">>, <<"b">>} \subseteq DOMAIN lib
    /\ <<"b">> \in Invokes(lib, <<"a">>)
    /\ <<"a">> \in Invokes(lib, <<"b">>)

Resolved == pc = "done" /\ ForestNames(Output) \cap {<<"a">>, <<"b">>} = {}

\* C3 (as claimed): when a's body invokes b and b's body invokes a with other
\* attributes, substitute on a document that invokes a (below its root element)
\* terminates and leaves no element named a or b.
C3_MutualRecursionResolves == (Mutual(loaded) /\ ~RootIsInvocation) => <>Resolved

\* an element of the document holds an invocation of a below it
InvokedBelow ==
    \E i \in 1..Len(source) :
        is_element(source[i]) /\ <<"a">> \in ForestNames(source[i].children)

\* C3 (amended): when a invokes b only in the <then> of an <if> on attribute n
\* and b invokes a with a value of n that the pattern of the <if> does not
\* match, substitute on an element that contains an invocation of a terminates
\* and leaves no element named a or b below it; when a invokes b and b invokes
\* a unconditionally, substitute on such an element never returns.
C3_GuardedRecursionResolves ==
    /\ ( /\ \E pattern, value \in {<<"a">>, <<"b">>} :
              pattern # value /\ loaded = GuardedLibrary(pattern, value)
         /\ ~RootIsInvocation )
       => <>Resolved
    /\ [](loaded = MutualLibrary /\ ~RootIsInvocation /\ InvokedBelow => ~Finished)

\* the guard let the first round through and stopped the second
C3_Witness ==
    /\ Resolved /\ ~RootIsInvocation
    /\ loaded = GuardedLibrary(<<"a">>, <<"b">>)
    /\ \E i \in 1..Len(source[Len(source)].children) :
           source[Len(source)].children[i].name = <<"a">>
             /\ source[Len(source)].children[i].attrs = <<<<<<"n">>, <<"a">>>>>>
    /\ last.tag = <<"a">> /\ last.invocation.attrs = <<<<<<"n">>, <<"b">>>>>>
    /\ <<"q">> \in ForestNames(Output)

---------------------------------------------------------------------------
(* Observations of one instantiation *)

\* the most recent instantiate call worked on this definition and returned
Instantiated(definition) == last.tag # <<>> /\ last.definition = definition /\ ~last.panic

\* the value the invocation gives attribute key, empty when it has none
Given(invocation, key) ==
    IF has_attribute(invocation, key) THEN attribute(invocation, key) ELSE <<>>

\* the element children of the invocation
Arguments == SelectSeq(last.invocation.children, is_element)

---------------------------------------------------------------------------
(* C5 *)

\* <ul> holding one <li> per element child of the invocation, each around a
\* copy of that child
ExpectedList ==
    <<Plain(<<"u", "l">>, [k \in 1..Len(Arguments) |-> Plain(<<"l", "i">>, <<Arguments[k]>>)])>>

C5_WitnessEmpty ==
    /\ Instantiated(ItemLoop)
    /\ Len(last.invocation.children) > 0 /\ Len(Arguments) = 0
    /\ last.nodes = <<Plain(<<"u", "l">>, <<>>)>>

---------------------------------------------------------------------------
(* C6 *)

\* C6 (as claimed): the text ${self.x} of a body becomes the value the
\* invocation gives x, and empty text when it gives none.
C6_TextPlaceholderReplaced ==
    Instantiated(LabelBody) =>
        last.nodes[1].children = <<Text(Given(last.invocation, <<"x">>))>>

\* C6 (amended): the attribute value ${self.x} of a body becomes the value the
\* invocation gives x, and the empty value when it gives none; the text
\* ${self.x} is left as written; the instantiation fails only in a build with
\* debug assertions, when the value of x holds "$".
C6_AttributePlaceholderReplaced ==
    (last.tag # <<>> /\ last.definition = LabelBody) =>
        /\ last.panic = (debug_assertions /\ contains(Given(last.invocation, <<"x">>), "$"))
        /\ ~last.panic =>
             /\ last.nodes[1].attrs = <<<<<<"t">>, Given(last.invocation, <<"x">>)>>>>
             /\ last.nodes[1].children = <<Text(Placeholder(<<"x">>))>>

C6_Witness ==
    /\ Instantiated(LabelBody)
    /\ Given(last.invocation, <<"x">>) = <<"a">>
    /\ last.nodes[1].attrs = <<<<<<"t">>, <<"a">>>>>>

\* the invocation has no attribute x
C6_WitnessAbsent ==
    /\ Instantiated(LabelBody)
    /\ ~has_attribute(last.invocation, <<"x">>)
    /\ last.nodes[1].attrs = <<<<<<"t">>, <<>>>>>>

---------------------------------------------------------------------------
(* C7 *)

\* C7 (as claimed): <self.x> becomes one text node holding the invocation's
\* value of x when that is not empty and is removed when x is empty or absent;
\* no <self.x> remains and the instantiation does not abort.
C7_SelfAttrReplaced ==
    (last.tag # <<>> /\ last.definition = SelfAttrBody) =>
        /\ ~last.panic
        /\ last.nodes =
             <<Plain(<<"d">>,
                 <<Text(<<"t">>)>>
                 \o (IF Given(last.invocation, <<"x">>) # <<>>
                     THEN <<Text(Given(last.invocation, <<"x">>))>> ELSE <<>>)
                 \o <<Plain(<<"s">>, <<>>)>>)>>

---------------------------------------------------------------------------
(* C8 *)

\* the text is in the language of the pattern: some alternative spells all of it
WholeMatch(pattern, text) ==
    \E a \in 1..Len(alternatives(pattern)) :
        LET alt == alternatives(pattern)[a] IN
        /\ Len(alt) = Len(text)
        /\ \A k \in 1..Len(alt) : alt[k] = "." \/ alt[k] = text[k]

\* the pattern an <if> of IfScenarios tests, its placeholder filled in
PatternTested(pattern) ==
    IF pattern = Placeholder(<<"y">>) THEN Given(last.invocation, <<"y">>) ELSE pattern

\* the children of the branch, nothing when the <if> has no such branch
BranchOf(branches, name) ==
    IF \E i \in 1..Len(branches) : branches[i].name = name
    THEN branches[CHOOSE i \in 1..Len(branches) : branches[i].name = name].children
    ELSE <<>>

\* C8 (as claimed): <if self.x="pattern"> is replaced by the children of <then>
\* exactly when the invocation's value of x matches the whole pattern, and by
\* the children of <else> otherwise; a missing branch gives nothing.
C8_WholePatternDecides ==
    \A pattern \in Patterns \ {<<"(">>}, branches \in Branches :
        Instantiated(IfBody(<<<<SELF_ \o <<"x">>, pattern>>>>, branches)) =>
            last.nodes =
              <<Plain(<<"d">>,
                  IF WholeMatch(PatternTested(pattern), Given(last.invocation, <<"x">>))
                  THEN BranchOf(branches, THEN_)
                  ELSE BranchOf(branches, ELSE_))>>

---------------------------------------------------------------------------
(* C9 *)

\* the value of one side of A||B, by the rules of a stand-alone expression
SideValue(side) ==
    IF side = SELF_FILEPATH THEN file_path
    ELSE IF starts_with(side, SELF_) THEN Given(last.invocation, strip_prefix(side, SELF_))
    ELSE <<>>

\* what A||B is claimed to give
DefaultValue(a, b) == IF SideValue(a) # <<>> THEN SideValue(a) ELSE SideValue(b)

\* the side reads an attribute whose value holds a "$", in a build that keeps
\* debug assertions
SideAborts(side) ==
    /\ debug_assertions
    /\ side # SELF_FILEPATH /\ starts_with(side, SELF_)
    /\ contains(SideValue(side), "$")

C9_WitnessAbsent ==
    /\ Instantiated(DefaultBody(SELF_ \o <<"x">>, SELF_ \o <<"y">>))
    /\ last.invocation.attrs = <<>>
    /\ last.nodes[1].attrs = <<<<<<"t">>, <<>>>>>>

---------------------------------------------------------------------------
(* C10 *)

\* one application of expand_string to a value of Written
OnePass(written) ==
    IF written = Placeholder(<<"x">>) THEN Given(last.invocation, <<"x">>)
    ELSE <<"$">> \o Given(last.invocation, <<"x">>)

\* C10 (as claimed): an attribute written in the definition ends as one
\* application of expand_string to what was written, on an ordinary element
\* and on an occurrence of a loop variable alike.
C10_ExpandedOnce ==
    \A written \in Written :
        /\ Instantiated(PlainAttribute(written)) =>
              last.nodes[1].attrs = <<<<<<"t">>, OnePass(written)>>>>
        /\ Instantiated(OccurrenceLoop(written)) =>
              last.nodes[1].children[1].attrs = <<<<<<"t">>, OnePass(written)>>>>

---------------------------------------------------------------------------
(* C11 *)

\* C11 (as claimed): once a node has been detached from the tree, the engine
\* does not read its children again: no call of substitute is at work on a
\* child of a node that a component match has detached.
C11_NoStaleRead ==
    \A i \in 1..(Len(stack) - 1) : ~stack[i].detached

---------------------------------------------------------------------------
(* C12 *)

\* the instantiation of AdvisoryBody with nothing where an advisory error occurs
AdvisoryExpected ==
    <<Element(<<"d">>,
        <<<<<<"t">>, <<>>>>, <<<<"u">>, Given(last.invocation, <<"x">>)>>>>,
        <<Text(<<"t">>)>>
          \o (IF Given(last.invocation, <<"x">>) # <<>>
              THEN <<Text(Given(last.invocation, <<"x">>))>> ELSE <<>>)
          \o <<Plain(<<"s">>, <<>>)>>)>>

\* C12 (as claimed): an unrecognized ${...} expression, a reference to an
\* attribute the invocation does not have and an <if> with neither <then> nor
\* <else> each leave nothing where they stand, and the run is not aborted.
C12_AdvisoryYieldsEmpty ==
    /\ loaded = (<<"a">> :> AdvisoryBody) => pc # "aborted"
    /\ (last.tag # <<>> /\ last.definition = AdvisoryBody) =>
          ~last.panic /\ last.nodes = AdvisoryExpected

---------------------------------------------------------------------------
(* C13 *)

RECURSIVE Subtrees(_)
\* the nodes of a forest, each with all that is below it
Subtrees(nodes) ==
    {nodes[i] : i \in 1..Len(nodes)}
      \cup UNION {Subtrees(nodes[i].children) : i \in 1..Len(nodes)}

\* the tag names the bodies of the library spell out
Emitted == UNION {ElementNames(loaded[t]) : t \in DOMAIN loaded}

\* C13 (as claimed): the children of a node are substituted before the node's
\* own tag is matched, so the children of an invocation hold no library tag at
\* the moment the component is instantiated.
C13_ChildrenExpandedFirst ==
    last.tag # <<>> => ForestNames(last.invocation.children) \cap DOMAIN library = {}

\* the items of OrderLibrary's list for the children of the invocation as they
\* were written: one <li> per element child, b expanded inside its <li>
ItemsAsWritten(kids) ==
    [k \in 1..Len(kids) |->
        Plain(<<"l", "i">>,
              IF kids[k].name = <<"b">> THEN <<Plain(<<"q">>, <<>>), Text(<<"t">>)>>
              ELSE <<kids[k]>>)]

\* C13 (amended): the node's own tag is matched before any of its children is
\* visited: an invocation of a component that no body emits is instantiated
\* exactly as the document spells it, library tags among its children
\* included, and a foreachchild iterates over the element children as written;
\* they are expanded afterwards, inside the clones.
C13_MatchedAsWritten ==
    /\ (last.tag # <<>> /\ last.tag \notin Emitted) => last.invocation \in Subtrees(source)
    /\ (pc = "done" /\ loaded = OrderLibrary) =>
          Output[2].children =
            <<Plain(<<"u", "l">>,
                    ItemsAsWritten(SelectElements(source[2].children[1].children)))>>

\* b stood among the children when a was instantiated, and was expanded in the clone
C13_Witness ==
    /\ pc = "done" /\ loaded = OrderLibrary
    /\ source[2].children[1].children = <<Plain(<<"b">>, <<>>), Plain(<<"s">>, <<>>)>>
    /\ Output[2].children =
         <<Plain(<<"u", "l">>,
             <<Plain(<<"l", "i">>, <<Plain(<<"q">>, <<>>), Text(<<"t">>)>>),
               Plain(<<"l", "i">>, <<Plain(<<"s">>, <<>>)>>)>>)>>

---------------------------------------------------------------------------
(* C14 *)

\* the loop-body template of a body <ul><foreachchild.v>T</foreachchild.v></ul>
Template(body) == body.children[1].children[1].children[1]

RECURSIVE Bound(_, _)
\* the template with every <v> in it standing for the child
Bound(node, child) ==
    IF is_element(node) /\ node.name = <<"v">> THEN child
    ELSE [node EXCEPT !.children = [i \in 1..Len(node.children) |-> Bound(node.children[i], child)]]

\* one clone of the template per element child of the invocation, in order
Iterations(body) ==
    <<Plain(<<"u", "l">>, [k \in 1..Len(Arguments) |-> Bound(Template(body), Arguments[k])])>>

\* C14 (as claimed): <foreachchild.v> is replaced by one clone of its template
\* per element child of the invocation, in order, every <v> of the k-th clone
\* standing for the k-th element child; the foreachchild node is gone in every
\* case.
C14_ForeachAlwaysReplaced ==
    \A body \in {ItemLoop, FixedLoop, DeepLoop} :
        Instantiated(body) => last.nodes = Iterations(body)

\* C14 (amended): the same, provided the name v is known to the tree library
\* (some parsed file holds an element or attribute named v); when it is not,
\* the foreachchild node is left in place as written.  No case aborts.
C14_ForeachIterates ==
    \A body \in {FixedLoop, DeepLoop} :
        (last.tag # <<>> /\ last.definition = body) =>
            /\ ~last.panic
            /\ last.nodes = IF <<"v">> \in names THEN Iterations(body) ELSE body.children

\* two element children, each standing for both <v> of the template
C14_Witness ==
    /\ Instantiated(DeepLoop)
    /\ Len(Arguments) = 2 /\ Arguments[1] # Arguments[2]
    /\ last.nodes[1].children[2].children[2].children = <<Arguments[2]>>

\* the name v is unknown and the loop is left as written
C14_WitnessLeft ==
    /\ Instantiated(FixedLoop)
    /\ <<"v">> \notin names
    /\ Len(Arguments) > 0
    /\ last.nodes = FixedLoop.children

---------------------------------------------------------------------------
(* C15 *)

\* the innermost call of substitute has finished its scan and is about to return
ReturnReady == pc = "substitute" /\ Top.at = "loop" /\ Top.idx > Len(Top.node.children)

\* C15: when substitute returns from an element whose own tag is no library
\* key, no descendant of that element is named after a component: every node
\* an expansion spliced in has been passed through substitute by a restarted
\* scan.
C15_RescanResolves ==
    (ReturnReady /\ ~Top.detached /\ Top.node.name \notin DOMAIN library) =>
        ForestNames(Top.node.children) \cap DOMAIN library = {}

\* the body of a held an invocation of b, which the restarted scan expanded
C15_Witness ==
    /\ ReturnReady /\ ~Top.detached /\ Len(stack) = 1
    /\ loaded = ChainLibrary
    /\ <<"a">> \in ForestNames(Top.given.children)
    /\ <<"q">> \in ForestNames(Top.node.children)

---------------------------------------------------------------------------
(* C16 *)

\* C16: substitute returns true exactly when the node it was given is an
\* element that names, or holds an element that names, a library component;
\* when it returns false the node is as it was given and still in the tree.
C16_ChangedFlag ==
    /\ ReturnReady =>
          /\ Top.did_anything = (ElementNames(Top.given) \cap DOMAIN library # {})
          /\ ~Top.did_anything => (Top.node = Top.given /\ ~Top.detached)
    /\ (pc = "substitute" /\ Top.at = "enter" /\ ~is_element(Top.node)) =>
          (Top.node = Top.given /\ ~Top.did_anything)

\* true handed up from a child: the element is no component but held one
C16_Witness ==
    /\ ReturnReady /\ Top.did_anything /\ ~Top.detached
    /\ Top.given.name \notin DOMAIN library
    /\ Top.node # Top.given

---------------------------------------------------------------------------
(* C17 *)

\* C17: each <self.inner> of the body <d><self.inner/><s/><self.inner/></d> is
\* replaced by copies of all the children of the invocation - elements, text
\* and comments - in their order; no <self.inner> remains, and an invocation
\* without children leaves nothing in its place.
C17_InnerCloned ==
    (last.tag # <<>> /\ last.definition = InnerBody) =>
        /\ ~last.panic
        /\ last.nodes =
             <<Plain(<<"d">>,
                     last.invocation.children \o <<Plain(<<"s">>, <<>>)>>
                       \o last.invocation.children)>>

\* a comment and an element with text below it, copied twice in that order
C17_Witness ==
    /\ Instantiated(InnerBody)
    /\ last.invocation.children = <<Comment(<<"c">>), Plain(<<"s">>, <<Text(<<"a">>)>>)>>
    /\ Len(last.nodes[1].children) = 5

\* no children: the two <self.inner> leave nothing
C17_WitnessEmpty ==
    /\ Instantiated(InnerBody)
    /\ last.invocation.children = <<>>
    /\ last.nodes = <<Plain(<<"d">>, <<Plain(<<"s">>, <<>>)>>)>>

---------------------------------------------------------------------------
(* C18 *)

\* C18: the attributes of the cloned body are expanded against the invocation
\* before any construct is rewritten: the attribute on the root element and the
\* one inside the <then> branch carry the invocation's value of x, the <if>
\* compares with the expanded pattern, and the attributes of the caller's
\* content that <self.inner> brings in afterwards stay as the caller wrote them.
C18_AttributesFirst ==
    (last.tag # <<>> /\ last.definition = PrepassBody) =>
        /\ ~last.panic
        /\ last.nodes =
             <<Element(<<"d">>, <<<<<<"t">>, Given(last.invocation, <<"x">>)>>>>,
                 (IF Given(last.invocation, <<"x">>) = Given(last.invocation, <<"y">>)
                  THEN <<Element(<<"p">>, <<<<<<"t">>, Given(last.invocation, <<"x">>)>>>>, <<>>)>>
                  ELSE <<>>)
                 \o last.invocation.children)>>

\* the branch is taken and the caller's attribute is still a placeholder
C18_Witness ==
    /\ Instantiated(PrepassBody)
    /\ Len(last.nodes[1].children) = 2
    /\ last.nodes[1].children[1].attrs = <<<<<<"t">>, <<"a">>>>>>
    /\ last.nodes[1].children[2].attrs = <<<<<<"t">>, Placeholder(<<"x">>)>>>>

---------------------------------------------------------------------------
(* C19 *)

\* the run is one on a body whose <if> is malformed
FatalIf == \E s \in FatalScenarios : loaded = s.lib /\ source = s.doc

\* C19: an <if> with no attribute, with more than one, or with an expanded
\* pattern that is no regular expression aborts the run when it is processed:
\* the instantiation yields nothing, neither branch is taken and the document
\* is never finished.
C19_FatalIf ==
    FatalIf =>
        /\ pc # "done"
        /\ last.tag # <<>> => (last.panic /\ last.nodes = <<>> /\ pc = "aborted")

\* the pattern became invalid by expansion, and the run ended there
C19_Witness ==
    /\ FatalIf /\ pc = "aborted" /\ last.panic
    /\ last.definition = IfBody(<<<<SELF_ \o <<"x">>, Placeholder(<<"y">>)>>>>,
                                <<ThenBranch, ElseBranch>>)
    /\ Given(last.invocation, <<"x">>) = <<"(">>
    /\ doc_rest = <<>> /\ Len(stack) = 2

\* no attribute at all
C19_WitnessNone ==
    /\ FatalIf /\ pc = "aborted" /\ last.panic
    /\ last.definition = IfBody(<<>>, <<ThenBranch, ElseBranch>>)

\* two attributes
C19_WitnessTwo ==
    /\ FatalIf /\ pc = "aborted" /\ last.panic
    /\ Len(last.definition.children[1].children[1].attrs) = 2

---------------------------------------------------------------------------
(* C20 *)

\* C20 (as claimed): a <foreachchild.v> replaces only the <v> written in its own
\* template: in <ul><foreachchild.v><li><v/><self.inner/></li></foreachchild.v></ul>
\* the k-th <li> holds the k-th element child of the invocation followed by the
\* caller's children as the caller wrote them, an element named v among them
\* left as it is; and a <v> inside the child that stands for the loop variable
\* is left as it is.
C20_NoCapture ==
    /\ Instantiated(CaptureLoop) =>
          last.nodes =
            <<Plain(<<"u", "l">>,
                [k \in 1..Len(Arguments) |->
                    Plain(<<"l", "i">>, <<Arguments[k]>> \o last.invocation.children)])>>
    /\ Instantiated(ItemLoop) => last.nodes = ExpectedList

---------------------------------------------------------------------------
(* C21 *)

\* the outer <if> of NestedIfBody(inner, inner_in_then) selects the branch
\* that holds <p/>, so inner stands in the branch not taken
InnerNotTaken(inner_in_then) ==
    (Given(last.invocation, <<"x">>) = <<"a">>) = ~inner_in_then

\* C21 (as claimed): when an <if> selects one branch, whatever is nested in the
\* other branch is discarded without being evaluated: a nested <if> with no
\* attribute, with two, or with a pattern that is no regular expression does
\* not abort the run, and the instantiation is the selected branch alone.
C21_UntakenBranchDiscarded ==
    \A inner \in NestedInner, inner_in_then \in BOOLEAN :
        ( /\ last.tag # <<>>
          /\ last.definition = NestedIfBody(inner, inner_in_then)
          /\ InnerNotTaken(inner_in_then) )
        => /\ ~last.panic
           /\ pc # "aborted"
           /\ last.nodes = <<Plain(<<"d">>, <<Plain(<<"p">>, <<>>)>>)>>

---------------------------------------------------------------------------
(* C22 *)

\* a loop inside the template of a loop
NestedLoop ==
    Definition(<<Plain(FOREACHCHILD_ \o <<"v">>,
        <<Plain(<<"u", "l">>,
            <<Plain(FOREACHCHILD_ \o <<"w">>,
                <<Plain(<<"l", "i">>, <<Plain(<<"v">>, <<>>), Plain(<<"w">>, <<>>)>>)>>)>>)>>)>>)

\* constructs in what the caller wrote between the tags of the invocation
CallerKids ==
    {Plain(SELF_ \o INNER, <<>>), Element(IF_, <<>>, <<>>),
     Plain(FOREACHCHILD_ \o <<"v">>, <<>>), Plain(<<"v">>, <<>>)}

\* the libraries and documents an instantiate call is followed on: those of the
\* whole program, nested loops, and callers whose content spells constructs
InstantiateScenarios ==
    Scenarios
      \cup {Scenario(<<"a">> :> NestedLoop, Invoke(<<>>, kids), interned, debug, FALSE) :
               kids \in SeqsUpTo(LoopKids, MaxKids),
               interned \in {{}, {<<"v">>, <<"w">>}},
               debug \in BOOLEAN}
      \cup {Scenario(<<"a">> :> body, Invoke(<<>>, kids), {}, debug, FALSE) :
               body \in {InnerBody, CaptureLoop},
               kids \in SeqsUpTo(CallerKids, MaxKids),
               debug \in BOOLEAN}

\* One instantiate call on its own: a component of a loaded library is
\* instantiated for an element of the document that bears its name.
InstantiateInit ==
    \E s \in InstantiateScenarios :
        /\ Loaded(s)
        /\ phase = "idle"
        /\ arena = <<>>
        /\ calls = <<>>
        /\ \E t \in DOMAIN s.lib :
           \E invocation \in {n \in Subtrees(s.doc) : is_element(n) /\ n.name = t} :
               given = [tag |-> t, definition |-> s.lib[t], invocation |-> invocation,
                        panic |-> FALSE, nodes |-> <<>>]

\* the call keeps running until it returns or panics
InstantiateSpec ==
    InstantiateInit /\ [][InstantiateNext]_vars /\ WF_vars(InstantiateNext)

\* no call of expand_all_attr_strings, substitute_invocation or substitute_tag
\* is made twice on a node; substitute_invocation and the attribute pass are
\* never called on a node made during the rewrite, and substitute_tag never
\* on a node of the cloned body
VisitedOnce ==
    \A id \in 1..Len(arena) :
        /\ arena[id].expanded <= 1 /\ arena[id].visited <= 1 /\ arena[id].walked <= 1
        /\ arena[id].inserted => (arena[id].expanded = 0 /\ arena[id].visited = 0)
        /\ ~arena[id].inserted => arena[id].walked = 0

\* the call has returned having visited every node of the cloned body once in
\* each of its two passes, or has panicked
Ended ==
    \/ phase = "panicked"
    \/ /\ phase = "returned"
       /\ \A id \in 1..Len(arena) :
              ~arena[id].inserted => (arena[id].expanded = 1 /\ arena[id].visited = 1)

\* what the call returns: xot.children(node).collect(), line 474
Returned == trees(arena, arena[Root].children)

\* the call ends as the operator instantiate says
AsInstantiate ==
    /\ phase = "returned" =>
          With(instantiate(given.definition, given.invocation), LAMBDA r :
               ~r.panic /\ r.nodes = Returned)
    /\ phase = "panicked" => instantiate(given.definition, given.invocation).panic

\* C22: a single instantiation always terminates.  For every library,
\* component body and invocation, instantiate visits each node of the cloned
\* body at most once in the attribute pass and at most once in the structural
\* rewrite, never visits a node it has inserted itself, and after finitely many
\* steps returns (with the nodes the rewrite left under the clone) or panics.
C22_InstantiateTerminates ==
    /\ [](VisitedOnce /\ AsInstantiate)
    /\ <>Ended


\* a loop inside a loop has returned: two lists of two items each, made of
\* nodes inserted during the rewrite and walked by substitute_tag once
C22_Witness ==
    /\ phase = "returned" /\ given.definition = NestedLoop
    /\ Len(SelectElements(given.invocation.children)) = 2
    /\ Len(Returned) = 2
    /\ \A k \in 1..2 : Len(Returned[k].children) = 2
    /\ \E id \in 1..Len(arena) : arena[id].inserted /\ arena[id].walked = 1
    /\ \A id \in 1..Len(arena) : ~arena[id].inserted => arena[id].visited = 1

\* the instantiation of a component that invokes itself returns, although
\* substitute never finishes on a document that invokes it
C22_WitnessGrowing ==
    /\ phase = "returned" /\ loaded = GrowingLibrary
    /\ Returned = <<Plain(<<"p">>, <<Plain(<<"a">>, <<>>)>>)>>

\* the caller's <self.inner/> is copied into the body and not rewritten again
C22_WitnessCaller ==
    /\ phase = "returned" /\ given.definition = InnerBody
    /\ given.invocation.children = <<Plain(SELF_ \o INNER, <<>>)>>
    /\ Returned = <<Plain(<<"d">>, <<Plain(SELF_ \o INNER, <<>>), Plain(<<"s">>, <<>>),
                                    Plain(SELF_ \o INNER, <<>>)>>)>>

=============================================================================
